---- MODULE Spec2Model ----
(***************************************************************************)
(* Model of monarch-phenology-inaturalist: the classification work queue   *)
(* (classify_openrouter.py) and the incremental ingestion engine           *)
(* (ingest_inat.py) over the relational store of db.py.                    *)
(*                                                                         *)
(* Conventions.                                                            *)
(*  - A nullable column or value is Null (the empty tuple) or Some(v).     *)
(*  - Classification time is measured from the current instant: utcnow is  *)
(*    the origin, a stored retry_after holds the seconds still to wait,    *)
(*    and Tick moves the origin forward.  A retry_after in the past is     *)
(*    kept at the origin: the program only ever compares it with now().    *)
(*  - Feed timestamps (updated_at, the cursor) are whole hours.            *)
(***************************************************************************)
EXTENDS Integers, Sequences, FiniteSets, TLC

\* ------------------------------------------------------------------ bounds
NumPhotos == 2
MaxAttemptsLimit == 2
MaxItemsLimit == 2
MaxWorkersLimit == 2
TickSeconds == 3600
NumObs == 2
MaxClock == 4
\* the last transaction time a store of seen stamps is followed to
MaxNow == 6
\* the largest max_retries a feed client is built with
MaxRetriesLimit == 2
\* the iterations of the supervisor loop that are followed
MaxIterations == 3

VARIABLES
  photos,           \* table photos
  observations,     \* table observations
  classifications,  \* table classifications
  max_attempts,     \* classify_max_attempts of this deployment
  cl_pc,            \* position of the controller in classify_openrouter
  items,            \* list[WorkItem] returned by _select_next_work
  limit,            \* max_items of the current call, kept until the work is selected
  max_workers,      \* max_workers of the current call
  futures,          \* state of the task submitted for items[i]
  succeeded,        \* local counter of classify_openrouter
  failed,           \* local counter of classify_openrouter
  result,           \* the dict returned by the last call, Null before it returns
  commits,          \* conn.commit() calls of the current classify run
  feed,             \* the remote feed: observation id -> hour of its last update
  photo_of,         \* per observation of the feed, the id of the photo it carries
  clock,            \* the current hour
  settings,         \* the INAT_* settings of this deployment
  sync_state,       \* table sync_state, key inat.last_updated_since
  in_pc,            \* position of ingest_inat
  last_updated_since, \* local of ingest_inat: the cursor read at the start
  updated_since,    \* local of ingest_inat: the query parameter
  page,             \* local of ingest_inat
  results,          \* local of ingest_inat: the rows of the page just fetched
  max_updated_at,   \* local of ingest_inat
  obs_count,        \* local of ingest_inat
  photo_count,      \* local of ingest_inat
  stats,            \* the dict returned by the last ingest run
  db_now,           \* now() of the ingest connection's transaction, Null where the seen stamps are left out
  policy_call,      \* a call of _classify_retry_policy: its arguments, then its result
  parse_call,       \* a call of _parse_model_json: its argument, then its result
  map_call,         \* a call of a mapping function of ingest: its argument, then its result
  task_outcome,     \* per photo, the outcome its gateway task is fixed to; <<>> when left open
  max_retries,      \* InatClient._max_retries
  lo_pc,            \* position of a list_observations call
  lo_attempt,       \* list_observations: attempt
  requests,         \* the responses to the HTTP requests the call has issued, in order
  sleeps,           \* the time.sleep calls of the call: after which request, how long (ms)
  lo_result,        \* what the call returned or raised
  run_settings,     \* run: the settings the supervisor reads (s)
  wall,             \* time.time(), in seconds
  sv_pc,            \* position of run
  shutting_down,    \* run: shutting_down
  next_ingest,      \* run: next_ingest
  sv_now,           \* run: now, the start time of the current iteration
  iteration,        \* passes of the while loop begun so far
  ingest_outcome,   \* what the ingest phase of the current iteration did
  classify_outcome, \* what the classify phase of the current iteration did
  log               \* the logger.exception records written by run

cvars == <<photos, observations, classifications, max_attempts, cl_pc, items,
           limit, max_workers, futures, succeeded, failed, result, commits>>

\* what only the classification engine touches
cctl == <<classifications, max_attempts, cl_pc, items, limit, max_workers,
          futures, succeeded, failed, result, commits>>

ivars == <<feed, photo_of, clock, settings, sync_state, in_pc, last_updated_since,
           updated_since, page, results, max_updated_at, obs_count, photo_count,
           stats, db_now>>

\* the calls of the pure functions examined on their own
pvars == <<policy_call, parse_call, map_call, task_outcome>>

\* one list_observations call of the feed client
lvars == <<max_retries, lo_pc, lo_attempt, requests, sleeps, lo_result>>

\* the supervisor loop
svars == <<run_settings, wall, sv_pc, shutting_down, next_ingest, sv_now,
           iteration, ingest_outcome, classify_outcome, log>>

xvars == <<pvars, lvars, svars>>

vars == <<cvars, ivars, xvars>>

\* ----------------------------------------------------------------- values
Null == <<>>
Some(v) == <<v>>
Val(x) == x[1]

Min(a, b) == IF a <= b THEN a ELSE b
Max(a, b) == IF a >= b THEN a ELSE b

RECURSIVE Pow2(_)
Pow2(n) == IF n <= 0 THEN 1 ELSE 2 * Pow2(n - 1)

Range(s) == { s[i] : i \in DOMAIN s }

utcnow == 0

Photos == 1..NumPhotos

\* The tuple the deployment is configured with, and tuples left in the
\* table by runs under another model or another prompt version.
model_provider == "openrouter"
model == "m1"
prompt_version == "v1"
ForeignKeys == { [model |-> "m2", prompt_version |-> "v1"],
                 [model |-> "m1", prompt_version |-> "v2"] }

Statuses == {"pending", "succeeded", "failed", "permanent_failed"}

COALESCE(a, b, c) == IF a # Null THEN a ELSE IF b # Null THEN b ELSE c

\* ------------------------------------------------------------ work selection
\* Variant: the join forgets the prompt version.
JoinMatch_NoPromptVersion(c, p, prov, m, pv) ==
  /\ c.photo_id = p.photo_id
  /\ c.model_provider = prov
  /\ c.model = m

\* ON c.photo_id = p.photo_id AND c.model_provider = %s AND c.model = %s
\* AND c.prompt_version = %s
JoinMatch(c, p, prov, m, pv) ==
  /\ c.photo_id = p.photo_id
  /\ c.model_provider = prov
  /\ c.model = m
  /\ c.prompt_version = pv

\* The row LEFT JOIN yields for a photo without a matching classification.
NullRow == [classification_id |-> Null, status |-> Null,
            attempt_count |-> Null, retry_after |-> Null]

JoinRow(c) == [classification_id |-> Some(c.classification_id),
               status |-> Some(c.status),
               attempt_count |-> Some(c.attempt_count),
               retry_after |-> c.retry_after]

\* photos p JOIN observations o LEFT JOIN classifications c
Joined(ph, obs, cls, prov, m, pv) ==
  UNION { LET matched == { c \in cls : JoinMatch(c, p, prov, m, pv) }
              right == IF matched = {} THEN {NullRow}
                       ELSE { JoinRow(c) : c \in matched }
          IN  { [p |-> p, c |-> r] : r \in right }
        : p \in { q \in ph : \E o \in obs : o.observation_id = q.observation_id } }

\* Variant: any row whose retry_after is null or due is taken, whatever its status.
SelectWhere_AnyStatus(j) ==
  /\ COALESCE(j.p.url_large, j.p.url_square, j.p.url_original) # Null
  /\ \/ j.c.classification_id = Null
     \/ j.c.classification_id # Null
        /\ \/ j.c.retry_after = Null
           \/ Val(j.c.retry_after) <= utcnow

\* Variant: rows that failed permanently are retried like failed ones.
SelectWhere_FailedOrPermanent(j) ==
  /\ COALESCE(j.p.url_large, j.p.url_square, j.p.url_original) # Null
  /\ \/ j.c.classification_id = Null
     \/ /\ j.c.status \in {Some("failed"), Some("permanent_failed")}
        /\ \/ j.c.retry_after = Null
           \/ Val(j.c.retry_after) <= utcnow

\* WHERE COALESCE(urls) IS NOT NULL AND (c.classification_id IS NULL OR
\*   (c.status = 'failed' AND (c.retry_after IS NULL OR c.retry_after <= now())))
SelectWhere(j) ==
  /\ COALESCE(j.p.url_large, j.p.url_square, j.p.url_original) # Null
  /\ \/ j.c.classification_id = Null
     \/ /\ j.c.status = Some("failed")
        /\ \/ j.c.retry_after = Null
           \/ Val(j.c.retry_after) <= utcnow

\* Variant: the selection reports every item as never attempted.
WorkItem_NeverAttempted(j) ==
  [photo_id |-> j.p.photo_id,
   observation_id |-> j.p.observation_id,
   image_url |-> Val(COALESCE(j.p.url_large, j.p.url_square, j.p.url_original)),
   attempt_count |-> 0]

WorkItem(j) ==
  [photo_id |-> j.p.photo_id,
   observation_id |-> j.p.observation_id,
   image_url |-> Val(COALESCE(j.p.url_large, j.p.url_square, j.p.url_original)),
   attempt_count |-> IF j.c.attempt_count = Null THEN 0 ELSE Val(j.c.attempt_count)]

\* Variant: ORDER BY p.photo_id DESC.
RECURSIVE OrderLimit_Descending(_, _)
OrderLimit_Descending(js, n) ==
  IF js = {} \/ n <= 0 THEN <<>>
  ELSE LET j == CHOOSE x \in js : \A y \in js : x.p.photo_id >= y.p.photo_id
       IN  <<WorkItem(j)>> \o OrderLimit_Descending(js \ {j}, n - 1)

\* ORDER BY p.photo_id ASC LIMIT n
RECURSIVE OrderLimit(_, _)
OrderLimit(js, n) ==
  IF js = {} \/ n <= 0 THEN <<>>
  ELSE LET j == CHOOSE x \in js : \A y \in js : x.p.photo_id <= y.p.photo_id
       IN  <<WorkItem(j)>> \o OrderLimit(js \ {j}, n - 1)

\* Variant: LIMIT is applied before WHERE, so rows that are not eligible keep
\* their place in the batch.
_select_next_work_LimitFirst(ph, obs, cls, prov, m, pv, n) ==
  LET all == Joined(ph, obs, cls, prov, m, pv)
      lowest == { j \in all :
                    Cardinality({ k \in all : k.p.photo_id < j.p.photo_id }) < n }
  IN  OrderLimit({ j \in lowest : SelectWhere(j) }, n)

_select_next_work(ph, obs, cls, prov, m, pv, n) ==
  OrderLimit({ j \in Joined(ph, obs, cls, prov, m, pv) : SelectWhere(j) }, n)

\* ------------------------------------------------------------ row updates
\* Variant: WHERE model_provider = %s AND model = %s AND prompt_version = %s
RowMatch_AnyPhoto(c, item, prov, m, pv) ==
  /\ c.model_provider = prov
  /\ c.model = m
  /\ c.prompt_version = pv

\* WHERE photo_id = %s AND model_provider = %s AND model = %s AND prompt_version = %s
RowMatch(c, item, prov, m, pv) ==
  /\ c.photo_id = item.photo_id
  /\ c.model_provider = prov
  /\ c.model = m
  /\ c.prompt_version = pv

NextId(cls) ==
  IF cls = {} THEN 1
  ELSE 1 + (CHOOSE i \in { c.classification_id : c \in cls } :
              \A c \in cls : c.classification_id <= i)

NewRow(cls, item, prov, m, pv) ==
  [classification_id |-> NextId(cls),
   photo_id |-> item.photo_id,
   observation_id |-> item.observation_id,
   model_provider |-> prov,
   model |-> m,
   prompt_version |-> pv,
   status |-> "pending",
   attempt_count |-> 0,
   retry_after |-> Null,
   output |-> Null,
   error |-> Null]

\* Variant: a plain INSERT, without the conflict clause.
_upsert_pending_InsertOnly(cls, item, prov, m, pv) ==
  cls \cup { NewRow(cls, item, prov, m, pv) }

\* Variant: the conflict clause leaves the error column as it was.
_upsert_pending_KeepError(cls, item, prov, m, pv) ==
  IF \E c \in cls : RowMatch(c, item, prov, m, pv)
  THEN { IF RowMatch(c, item, prov, m, pv)
         THEN [c EXCEPT !.status = "pending"]
         ELSE c : c \in cls }
  ELSE cls \cup { NewRow(cls, item, prov, m, pv) }

\* INSERT ... VALUES (..., 'pending', ...) ON CONFLICT (photo_id, model_provider,
\* model, prompt_version) DO UPDATE SET status = 'pending', error = NULL, ...
_upsert_pending(cls, item, prov, m, pv) ==
  IF \E c \in cls : RowMatch(c, item, prov, m, pv)
  THEN { IF RowMatch(c, item, prov, m, pv)
         THEN [c EXCEPT !.status = "pending", !.error = Null]
         ELSE c : c \in cls }
  ELSE cls \cup { NewRow(cls, item, prov, m, pv) }

\* Variant: a success leaves attempt_count as it was.
_mark_success_NoIncrement(cls, item, prov, m, pv, output) ==
  { IF RowMatch(c, item, prov, m, pv)
    THEN [c EXCEPT !.status = "succeeded",
                   !.retry_after = Null,
                   !.output = Some(output),
                   !.error = Null]
    ELSE c : c \in cls }

\* Variant: a success leaves retry_after as it was.
_mark_success_KeepRetryAfter(cls, item, prov, m, pv, output) ==
  { IF RowMatch(c, item, prov, m, pv)
    THEN [c EXCEPT !.status = "succeeded",
                   !.attempt_count = @ + 1,
                   !.output = Some(output),
                   !.error = Null]
    ELSE c : c \in cls }

_mark_success(cls, item, prov, m, pv, output) ==
  { IF RowMatch(c, item, prov, m, pv)
    THEN [c EXCEPT !.status = "succeeded",
                   !.attempt_count = @ + 1,
                   !.retry_after = Null,
                   !.output = Some(output),
                   !.error = Null]
    ELSE c : c \in cls }

\* Variant: the UPDATE leaves the status column out.
_mark_failed_KeepStatus(cls, item, prov, m, pv, error, retry_after_seconds, maxatt) ==
  LET retry_after == utcnow + retry_after_seconds
  IN  { IF RowMatch(c, item, prov, m, pv)
        THEN [c EXCEPT !.attempt_count = @ + 1,
                       !.retry_after = IF c.attempt_count + 1 >= maxatt
                                       THEN Null ELSE Some(retry_after),
                       !.error = Some(error)]
        ELSE c : c \in cls }

_mark_failed(cls, item, prov, m, pv, error, retry_after_seconds, maxatt) ==
  LET retry_after == utcnow + retry_after_seconds
  IN  { IF RowMatch(c, item, prov, m, pv)
        THEN [c EXCEPT !.status = IF c.attempt_count + 1 >= maxatt
                                  THEN "permanent_failed" ELSE "failed",
                       !.attempt_count = @ + 1,
                       !.retry_after = IF c.attempt_count + 1 >= maxatt
                                       THEN Null ELSE Some(retry_after),
                       !.error = Some(error)]
        ELSE c : c \in cls }

\* Variant: the UPDATE leaves the retry_after column out.
_mark_permanent_failed_KeepRetryAfter(cls, item, prov, m, pv, error) ==
  { IF RowMatch(c, item, prov, m, pv)
    THEN [c EXCEPT !.status = "permanent_failed",
                   !.attempt_count = @ + 1,
                   !.error = Some(error)]
    ELSE c : c \in cls }

_mark_permanent_failed(cls, item, prov, m, pv, error) ==
  { IF RowMatch(c, item, prov, m, pv)
    THEN [c EXCEPT !.status = "permanent_failed",
                   !.attempt_count = @ + 1,
                   !.retry_after = Null,
                   !.error = Some(error)]
    ELSE c : c \in cls }

\* ------------------------------------------------------------ retry policy
\* Variant: the doubling is never capped.
_retry_seconds_for_attempt_NoCap(attempt, base, cap) ==
  base * Pow2(Max(0, attempt - 1))

_retry_seconds_for_attempt(attempt, base, cap) ==
  Min(cap, base * Pow2(Max(0, attempt - 1)))

\* An exception raised by the worker or by the parsing of its response.
\* header is the Retry-After header of an HTTP error response: Null when
\* absent, else whether the text is all digits and the number it denotes.
Exc(type, status_code, header) ==
  [type |-> type, status_code |-> status_code, header |-> header]

\* What classify_image raises in the runs modelled here: a rate limit with
\* Retry-After: 0, a client error and a timeout.
GatewayErrors ==
  { Exc("HTTPStatusError", 429, Some([isdigit |-> TRUE, int |-> 0])),
    Exc("HTTPStatusError", 400, Null),
    Exc("TimeoutException", 0, Null) }

Policy(permanent, retry_after_seconds, reason) ==
  [permanent |-> permanent, retry_after_seconds |-> retry_after_seconds,
   reason |-> reason]

\* Variant: every HTTP error other than 429 is taken for a server error.
_classify_retry_policy_ClientTransient(error, attempt) ==
  IF error.type = "HTTPStatusError" THEN
    IF error.status_code = 429 THEN
      IF error.header # Null /\ Val(error.header).isdigit
      THEN Policy(FALSE, Val(error.header).int, "rate limited")
      ELSE Policy(FALSE, _retry_seconds_for_attempt(attempt, 10, 300), "rate limited")
    ELSE Policy(FALSE, _retry_seconds_for_attempt(attempt, 30, 1800), "server error")
  ELSE IF error.type \in {"TimeoutException", "RequestError"}
  THEN Policy(FALSE, _retry_seconds_for_attempt(attempt, 10, 600), "network error")
  ELSE IF error.type = "JSONDecodeError"
  THEN Policy(FALSE, _retry_seconds_for_attempt(attempt, 60, 1800), "invalid JSON response")
  ELSE Policy(FALSE, _retry_seconds_for_attempt(attempt, 60, 3600), "unexpected error")

_classify_retry_policy(error, attempt) ==
  IF error.type = "HTTPStatusError" THEN
    IF error.status_code = 429 THEN
      IF error.header # Null /\ Val(error.header).isdigit
      THEN Policy(FALSE, Val(error.header).int, "rate limited")
      ELSE Policy(FALSE, _retry_seconds_for_attempt(attempt, 10, 300), "rate limited")
    ELSE IF 500 <= error.status_code /\ error.status_code < 600
    THEN Policy(FALSE, _retry_seconds_for_attempt(attempt, 30, 1800), "server error")
    ELSE Policy(TRUE, 0, "client error")
  ELSE IF error.type \in {"TimeoutException", "RequestError"}
  THEN Policy(FALSE, _retry_seconds_for_attempt(attempt, 10, 600), "network error")
  ELSE IF error.type = "JSONDecodeError"
  THEN Policy(FALSE, _retry_seconds_for_attempt(attempt, 60, 1800), "invalid JSON response")
  ELSE Policy(FALSE, _retry_seconds_for_attempt(attempt, 60, 3600), "unexpected error")

\* ------------------------------------------------------------ classify run
\* What a response carries at choices[0].message.content: the text of a JSON
\* object, or text no JSON object can be recovered from.
Contents == {"json_object", "not_json"}

\* The result of a future: the raw response, or the exception of the task.
WorkerOutcomes ==
  { [raised |-> Null, content |-> Some(k)] : k \in Contents }
  \cup { [raised |-> Some(e), content |-> Null] : e \in GatewayErrors }

\* _parse_model_json on the content: the object, or JSONDecodeError.
_parse_model_json(content) ==
  IF content = "json_object"
  THEN [output |-> Some("object"), raised |-> Null]
  ELSE [output |-> Null, raised |-> Some(Exc("JSONDecodeError", 0, Null))]

\* The try block of the result loop: fut.result(), the content lookup and
\* the parse.  It yields the output, or the exception the except clause gets.
TryBlock(o) ==
  IF o.raised # Null THEN [output |-> Null, raised |-> o.raised]
  ELSE _parse_model_json(Val(o.content))

Outstanding(f) == { i \in DOMAIN f : f[i] \in {"queued", "running"} }
Running(f) == { i \in DOMAIN f : f[i] = "running" }

\* items = _select_next_work(...)
ClassifySelect ==
  /\ UNCHANGED <<ivars, xvars>>
  /\ commits' = 0
  /\ cl_pc = "idle"
  /\ \E n \in 0..MaxItemsLimit :
       /\ limit' = n
       /\ items' = _select_next_work(photos, observations, classifications,
                                     model_provider, model, prompt_version, n)
  /\ cl_pc' = "selected"
  /\ succeeded' = 0
  /\ failed' = 0
  /\ result' = Null
  /\ futures' = <<>>
  /\ UNCHANGED <<photos, observations, classifications, max_attempts, max_workers>>

\* if not items: return {"succeeded": 0, "failed": 0}
ClassifyReturnEmpty ==
  /\ UNCHANGED <<ivars, xvars, commits>>
  /\ cl_pc = "selected"
  /\ items = <<>>
  /\ result' = Some([succeeded |-> 0, failed |-> 0])
  /\ cl_pc' = "returned"
  /\ limit' = 0
  /\ UNCHANGED <<photos, observations, classifications, max_attempts, items,
                 max_workers, futures, succeeded, failed>>

RECURSIVE ReserveAll(_, _, _)
ReserveAll(cls, its, i) ==
  IF i > Len(its) THEN cls
  ELSE ReserveAll(_upsert_pending(cls, its[i], model_provider, model, prompt_version),
                  its, i + 1)

\* for item in items: _upsert_pending(...);  conn.commit()
ClassifyReserve ==
  /\ UNCHANGED <<ivars, xvars>>
  /\ commits' = commits + 1
  /\ cl_pc = "selected"
  /\ items # <<>>
  /\ classifications' = ReserveAll(classifications, items, 1)
  /\ cl_pc' = "reserved"
  /\ limit' = 0
  /\ UNCHANGED <<photos, observations, max_attempts, items, max_workers,
                 futures, succeeded, failed, result>>

\* max_workers = max(1, int(max_workers));
\* futures = {ex.submit(_worker, item, notes): ... for ... in prepared}
ClassifySubmit ==
  /\ UNCHANGED <<ivars, xvars, commits>>
  /\ cl_pc = "reserved"
  /\ \E w \in 0..MaxWorkersLimit : max_workers' = Max(1, w)
  /\ futures' = [i \in 1..Len(items) |-> "queued"]
  /\ cl_pc' = "pool"
  /\ UNCHANGED <<photos, observations, classifications, max_attempts, items,
                 limit, succeeded, failed, result>>

\* Variant: every submitted task gets a thread of its own.
WorkerStart_Unbounded ==
  /\ UNCHANGED <<ivars, xvars, commits>>
  /\ cl_pc = "pool"
  /\ \E i \in DOMAIN futures :
       /\ futures[i] = "queued"
       /\ \A k \in DOMAIN futures : futures[k] = "queued" => i <= k
       /\ futures' = [futures EXCEPT ![i] = "running"]
  /\ UNCHANGED <<photos, observations, classifications, max_attempts, cl_pc,
                 items, limit, max_workers, succeeded, failed, result>>

\* A pool thread takes the oldest queued task; the pool has max_workers threads.
WorkerStart ==
  /\ UNCHANGED <<ivars, xvars, commits>>
  /\ cl_pc = "pool"
  /\ \E i \in DOMAIN futures :
       /\ futures[i] = "queued"
       /\ \A k \in DOMAIN futures : futures[k] = "queued" => i <= k
       /\ Cardinality(Running(futures)) < max_workers
       /\ futures' = [futures EXCEPT ![i] = "running"]
  /\ UNCHANGED <<photos, observations, classifications, max_attempts, cl_pc,
                 items, limit, max_workers, succeeded, failed, result>>

\* Variant: the worker task records its own success.
WorkerFinish_Writes ==
  /\ UNCHANGED <<ivars, xvars, commits>>
  /\ cl_pc = "pool"
  /\ \E i \in DOMAIN futures :
       /\ futures[i] = "running"
       /\ futures' = [futures EXCEPT ![i] = "done"]
       /\ classifications' = _mark_success(classifications, items[i], model_provider,
                                           model, prompt_version, "object")
  /\ UNCHANGED <<photos, observations, max_attempts, cl_pc, items, limit,
                 max_workers, succeeded, failed, result>>

\* client.classify_image(...) returns or raises; client.close()
WorkerFinish ==
  /\ UNCHANGED <<ivars, xvars, commits>>
  /\ cl_pc = "pool"
  /\ \E i \in DOMAIN futures :
       /\ futures[i] = "running"
       /\ futures' = [futures EXCEPT ![i] = "done"]
  /\ UNCHANGED <<photos, observations, classifications, max_attempts, cl_pc,
                 items, limit, max_workers, succeeded, failed, result>>

\* Variant: the permanent flag of the policy is ignored.
ProcessOutcome_NoPermanent(cls, item, outcome, maxatt) ==
  IF TryBlock(outcome).raised = Null
  THEN _mark_success(cls, item, model_provider, model, prompt_version,
                     Val(TryBlock(outcome).output))
  ELSE LET e == Val(TryBlock(outcome).raised)
           attempt == item.attempt_count + 1
           pol == _classify_retry_policy(e, attempt)
       IN  IF attempt >= maxatt
           THEN _mark_permanent_failed(cls, item, model_provider, model,
                                       prompt_version, pol.reason)
           ELSE _mark_failed(cls, item, model_provider, model, prompt_version,
                             pol.reason, pol.retry_after_seconds, maxatt)

\* The body of `for fut in as_completed(futures)` for one completed future.
\* The result the future holds is read here and nowhere else.
ProcessOutcome(cls, item, outcome, maxatt) ==
  IF TryBlock(outcome).raised = Null
  THEN _mark_success(cls, item, model_provider, model, prompt_version,
                     Val(TryBlock(outcome).output))
  ELSE LET e == Val(TryBlock(outcome).raised)
           attempt == item.attempt_count + 1
           pol == _classify_retry_policy(e, attempt)
       IN  IF pol.permanent \/ attempt >= maxatt
           THEN _mark_permanent_failed(cls, item, model_provider, model,
                                       prompt_version, pol.reason)
           ELSE _mark_failed(cls, item, model_provider, model, prompt_version,
                             pol.reason, pol.retry_after_seconds, maxatt)

ClassifyProcessResult ==
  /\ UNCHANGED <<ivars, xvars>>
  /\ commits' = commits + 1
  /\ cl_pc = "pool"
  /\ \E i \in DOMAIN futures, outcome \in WorkerOutcomes :
       /\ futures[i] = "done"
       /\ LET ok == TryBlock(outcome).raised = Null
          IN  /\ classifications' = ProcessOutcome(classifications, items[i],
                                                   outcome, max_attempts)
              /\ succeeded' = IF ok THEN succeeded + 1 ELSE succeeded
              /\ failed' = IF ok THEN failed ELSE failed + 1
       /\ futures' = [futures EXCEPT ![i] = "processed"]
  /\ UNCHANGED <<photos, observations, max_attempts, cl_pc, items, limit,
                 max_workers, result>>

\* Variant: the loop stops at the first processed result.
LoopExhausted_First(f) == \E i \in DOMAIN f : f[i] = "processed"

\* as_completed is exhausted, the executor has shut down (wait=True).
LoopExhausted(f) == \A i \in DOMAIN f : f[i] = "processed"

ClassifyReturn ==
  /\ UNCHANGED <<ivars, xvars, commits>>
  /\ cl_pc = "pool"
  /\ LoopExhausted(futures)
  /\ result' = Some([succeeded |-> succeeded, failed |-> failed])
  /\ cl_pc' = "returned"
  /\ UNCHANGED <<photos, observations, classifications, max_attempts, items,
                 limit, max_workers, futures, succeeded, failed>>

\* The caller (cli.classify, cli.run) takes the result; the connection closes.
ClassifyExit ==
  /\ UNCHANGED <<ivars, xvars>>
  /\ commits' = 0
  /\ cl_pc = "returned"
  /\ cl_pc' = "idle"
  /\ items' = <<>>
  /\ futures' = <<>>
  /\ limit' = 0
  /\ max_workers' = 1
  /\ succeeded' = 0
  /\ failed' = 0
  /\ result' = Null
  /\ UNCHANGED <<photos, observations, classifications, max_attempts>>

\* The process is killed inside classify_openrouter with work left to do:
\* its threads die with it, the open transaction is rolled back, committed
\* rows stay.
ClassifyCrash ==
  /\ UNCHANGED <<ivars, xvars>>
  /\ commits' = 0
  /\ cl_pc \in {"reserved", "pool"}
  /\ cl_pc = "pool" => ~LoopExhausted(futures)
  /\ cl_pc' = "idle"
  /\ items' = <<>>
  /\ futures' = <<>>
  /\ limit' = 0
  /\ max_workers' = 1
  /\ succeeded' = 0
  /\ failed' = 0
  /\ result' = Null
  /\ UNCHANGED <<photos, observations, classifications, max_attempts>>

\* Time passes.
Elapse(c, d) ==
  IF c.retry_after = Null THEN c
  ELSE [c EXCEPT !.retry_after = Some(Max(utcnow, Val(@) - d))]

Tick ==
  /\ UNCHANGED <<ivars, xvars, commits>>
  /\ classifications' = { Elapse(c, TickSeconds) : c \in classifications }
  /\ classifications' # classifications
  /\ UNCHANGED <<photos, observations, max_attempts, cl_pc, items, limit,
                 max_workers, futures, succeeded, failed, result>>

\* ================================================================ ingestion
\* Timestamps are whole hours.  A text holding a timestamp is a record, so
\* that formatting and parsing are two different conversions.
timedelta(days, hours) == days * 24 + hours

\* dt.astimezone(timezone.utc).isoformat().replace("+00:00", "Z")
_iso(dt) == [iso8601 |-> TRUE, hours |-> dt]

\* None for a missing value and for a text that is not ISO-8601.
_parse_iso(value) ==
  IF value = Null THEN Null
  ELSE IF ~Val(value).iso8601 THEN Null
  ELSE Some(Val(value).hours)

_parse_dt(value) ==
  IF value = Null THEN Null
  ELSE IF ~Val(value).iso8601 THEN Null
  ELSE Some(Val(value).hours)

ObsIds == 1..NumObs

\* The photo JSON the feed serves for photo p: odd ids come with a thumbnail
\* URL only, even ids with an original URL only, photo 0 with neither.
RemotePhoto(p) ==
  [id |-> p,
   url |-> IF p > 0 /\ p % 2 = 1 THEN Some("photos/1/square.jpg") ELSE Null,
   original_url |-> IF p > 0 /\ p % 2 = 0 THEN Some("photos/1/original.jpg") ELSE Null]

\* The observation JSON the feed serves for observation o, last updated at t.
RemoteObservation(o, t) ==
  [id |-> o,
   updated_at |-> Some([iso8601 |-> TRUE, hours |-> t]),
   photos |-> <<RemotePhoto(IF o \in DOMAIN photo_of THEN photo_of[o] ELSE o)>>]

\* "square." in square, and square.replace("/square.", "/large.")
LargeOf(square) ==
  IF square = "photos/1/square.jpg" THEN Some("photos/1/large.jpg") ELSE Null

\* "/photos/" in square, and square.replace("/square.jpg", "/original.jpeg")
OriginalGuess(square) ==
  IF square = "photos/1/square.jpg" THEN "photos/1/original.jpeg" ELSE square

best_photo_urls(photo) ==
  LET square == photo.url
      large == IF square # Null THEN LargeOf(Val(square)) ELSE Null
      original ==
        IF photo.original_url = Null /\ square # Null
           /\ OriginalGuess(Val(square)) # Val(square)
        THEN Some(OriginalGuess(Val(square)))
        ELSE photo.original_url
  IN  [square |-> square, large |-> large, original |-> original]

_extract_observation_fields(obs) ==
  [observation_id |-> obs.id,
   updated_at |-> _parse_iso(obs.updated_at)]

_extract_photo_fields(observation_id, photo, position) ==
  [photo_id |-> photo.id,
   observation_id |-> observation_id,
   position |-> position,
   url_square |-> best_photo_urls(photo).square,
   url_large |-> best_photo_urls(photo).large,
   url_original |-> best_photo_urls(photo).original]

\* now(): the time the transaction in progress began.
now == db_now

\* conn.commit(): the next transaction begins later.
commit(t) == IF t = Null THEN Null ELSE Some(Val(t) + 1)

\* Variant: the observation is not written.
UpsertObservation_Skip(obs, fields) == obs

\* Variant: the conflicting row is replaced by a fresh insert.
UpsertObservation_Replace(obs, fields) ==
  { r \in obs : r.observation_id # fields.observation_id }
    \cup { fields @@ [first_seen_at |-> now, last_seen_at |-> now] }

\* INSERT INTO observations (..., first_seen_at, last_seen_at, ...)
\* VALUES (..., now(), now(), ...)
\* ON CONFLICT (observation_id) DO UPDATE SET ..., last_seen_at = now(), ...
UpsertObservation(obs, fields) ==
  IF \E r \in obs : r.observation_id = fields.observation_id
  THEN { IF r.observation_id = fields.observation_id
         THEN fields @@ [first_seen_at |-> r.first_seen_at, last_seen_at |-> now]
         ELSE r : r \in obs }
  ELSE obs \cup { fields @@ [first_seen_at |-> now, last_seen_at |-> now] }

\* INSERT INTO photos (..., first_seen_at, last_seen_at, ...)
\* VALUES (..., now(), now(), ...)
\* ON CONFLICT (photo_id) DO UPDATE SET ..., last_seen_at = now(), ...
UpsertPhoto(ph, pfields) ==
  IF \E r \in ph : r.photo_id = pfields.photo_id
  THEN { IF r.photo_id = pfields.photo_id
         THEN pfields @@ [first_seen_at |-> r.first_seen_at, last_seen_at |-> now]
         ELSE r : r \in ph }
  ELSE ph \cup { pfields @@ [first_seen_at |-> now, last_seen_at |-> now] }

\* SELECT value FROM sync_state WHERE key = %s
get_state(state) == state

\* Variant: INSERT INTO sync_state ... ON CONFLICT (key) DO NOTHING
set_state_DoNothing(state, value) == IF state = Null THEN Some(value) ELSE state

\* INSERT INTO sync_state ... ON CONFLICT (key) DO UPDATE SET value = ...
set_state(state, value) == Some(value)

\* The remote feed: the ids updated at or after updated_since, ascending by
\* updated_at (ties by id), cut into pages of per_page, page numbers from 1.
RECURSIVE Ascending(_, _)
Ascending(ids, f) ==
  IF ids = {} THEN <<>>
  ELSE LET o == CHOOSE a \in ids :
                  \A b \in ids : f[a] < f[b] \/ (f[a] = f[b] /\ a <= b)
       IN  <<o>> \o Ascending(ids \ {o}, f)

list_observations(f, per_page, page_no, since_text) ==
  LET since == Val(_parse_dt(Some(since_text)))
      ordered == Ascending({ o \in DOMAIN f : f[o] >= since }, f)
      first == (page_no - 1) * per_page + 1
      last == Min(page_no * per_page, Len(ordered))
  IN  [results |-> [i \in 1..(last - first + 1) |->
                      RemoteObservation(ordered[first + i - 1],
                                        f[ordered[first + i - 1]])]]

\* last_updated_since = get_state(...); last_dt = _parse_iso(...) or
\* now - backfill_days; updated_since = _iso(last_dt - overlap_hours); page = 1
IngestStart ==
  /\ in_pc = "idle"
  /\ LET last_dt == IF _parse_iso(get_state(sync_state)) = Null
                    THEN clock - timedelta(settings.backfill_days, 0)
                    ELSE Val(_parse_iso(get_state(sync_state)))
     IN  updated_since' = Some(_iso(last_dt - timedelta(0, settings.overlap_hours)))
  /\ last_updated_since' = get_state(sync_state)
  /\ page' = 1
  /\ results' = <<>>
  /\ max_updated_at' = Null
  /\ obs_count' = 0
  /\ photo_count' = 0
  /\ stats' = Null
  /\ in_pc' = "loop"
  /\ UNCHANGED <<feed, photo_of, clock, settings, sync_state, photos, observations, db_now,
                 cctl, xvars>>

\* Variant: the bound is compared with >=.
PageBoundReached_OffByOne ==
  settings.max_pages_per_run # 0 /\ page >= settings.max_pages_per_run

\* if max_pages_per_run and page > max_pages_per_run: break
PageBoundReached ==
  settings.max_pages_per_run # 0 /\ page > settings.max_pages_per_run

\* The body of `for o in observations`, folded over the results of one page.
RECURSIVE StorePage(_, _, _)
StorePage(acc, rows, i) ==
  IF i > Len(rows) THEN acc
  ELSE LET o == rows[i]
           fields == _extract_observation_fields(o)
           pfields == _extract_photo_fields(o.id, o.photos[1], 0)
           o_updated_at == _parse_dt(o.updated_at)
       IN  StorePage(
             [observations |-> UpsertObservation(acc.observations, fields),
              photos |-> UpsertPhoto(acc.photos, pfields),
              obs_count |-> acc.obs_count + 1,
              photo_count |-> acc.photo_count + Len(o.photos),
              max_updated_at |->
                IF o_updated_at # Null
                   /\ (acc.max_updated_at = Null
                       \/ Val(o_updated_at) > Val(acc.max_updated_at))
                THEN o_updated_at ELSE acc.max_updated_at],
             rows, i + 1)

\* data = client.list_observations(..., page=page, updated_since=updated_since)
\* results = data.get("results") or []
IngestFetch ==
  /\ in_pc = "loop"
  /\ ~PageBoundReached
  /\ results' = list_observations(feed, settings.per_page, page,
                                  Val(updated_since)).results
  /\ in_pc' = "fetched"
  /\ UNCHANGED <<feed, photo_of, clock, settings, sync_state, last_updated_since,
                 updated_since, page, max_updated_at, obs_count, photo_count,
                 stats, photos, observations, db_now, cctl, xvars>>

\* The store and the locals after the rows of the fetched page were upserted.
StoredPage ==
  StorePage([observations |-> observations, photos |-> photos,
             obs_count |-> obs_count, photo_count |-> photo_count,
             max_updated_at |-> max_updated_at],
            results, 1)

\* The rest of one pass of the while loop over a non-empty page:
\* upsert every row, conn.commit(), page += 1.
IngestStore ==
  /\ in_pc = "fetched"
  /\ results # <<>>
  /\ IF db_now = Null THEN TRUE ELSE Val(db_now) < MaxNow
  /\ db_now' = commit(db_now)
  /\ observations' = StoredPage.observations
  /\ photos' = StoredPage.photos
  /\ obs_count' = StoredPage.obs_count
  /\ photo_count' = StoredPage.photo_count
  /\ max_updated_at' = StoredPage.max_updated_at
  /\ page' = page + 1
  /\ results' = <<>>
  /\ in_pc' = "loop"
  /\ UNCHANGED <<feed, photo_of, clock, settings, sync_state, last_updated_since,
                 updated_since, stats, cctl, xvars>>

\* The loop breaks (page bound, or an empty page);
\* if max_updated_at is not None: set_state(...); return {...}
IngestFinish ==
  /\ \/ in_pc = "loop" /\ PageBoundReached
     \/ in_pc = "fetched" /\ results = <<>>
  /\ sync_state' = IF max_updated_at # Null
                   THEN set_state(sync_state, _iso(Val(max_updated_at)))
                   ELSE sync_state
  /\ stats' = Some([observations |-> obs_count, photos |-> photo_count])
  /\ db_now' = IF max_updated_at # Null THEN commit(db_now) ELSE db_now
  /\ in_pc' = "returned"
  /\ UNCHANGED <<feed, photo_of, clock, settings, last_updated_since, updated_since, page,
                 results, max_updated_at, obs_count, photo_count, photos,
                 observations, cctl, xvars>>

\* The caller (cli.ingest, cli.run) takes the counts; the locals are gone.
IngestExit ==
  /\ in_pc = "returned"
  /\ in_pc' = "idle"
  /\ last_updated_since' = Null
  /\ updated_since' = Null
  /\ page' = 1
  /\ results' = <<>>
  /\ max_updated_at' = Null
  /\ obs_count' = 0
  /\ photo_count' = 0
  /\ stats' = Null
  /\ UNCHANGED <<feed, photo_of, clock, settings, sync_state, photos, observations, db_now,
                 cctl, xvars>>

\* Somebody edits observation o on iNaturalist: its updated_at becomes the
\* current time, which moves it to the end of the ascending order.
RemoteUpdate ==
  /\ clock < MaxClock
  /\ \E o \in DOMAIN feed :
       /\ clock' = clock + 1
       /\ feed' = [feed EXCEPT ![o] = clock + 1]
  /\ UNCHANGED <<photo_of, settings, sync_state, in_pc, last_updated_since,
                 updated_since, page, results, max_updated_at, obs_count, photo_count,
                 stats, photos, observations, db_now, cctl, xvars>>

\* The settings validate_settings accepts, over small values.
IngestSettings ==
  [per_page : {1, 2}, backfill_days : {0, 1}, overlap_hours : {0, 1},
   max_pages_per_run : {0, 1}]

\* Every observation of the feed carries the photo of its own id.
OwnPhotos == photo_of = [o \in ObsIds |-> o]

\* No ingest run is in progress and none has run.
IngestAtRest ==
  /\ in_pc = "idle"
  /\ sync_state = Null
  /\ last_updated_since = Null
  /\ updated_since = Null
  /\ page = 1
  /\ results = <<>>
  /\ max_updated_at = Null
  /\ obs_count = 0
  /\ photo_count = 0
  /\ stats = Null

\* No classify run is in progress.
ClassifyAtRest ==
  /\ cl_pc = "idle"
  /\ items = <<>>
  /\ limit = 0
  /\ max_workers = 1
  /\ futures = <<>>
  /\ succeeded = 0
  /\ failed = 0
  /\ result = Null
  /\ commits = 0

\* An empty store, a feed of NumObs observations updated at the hours
\* 1..NumObs, and the first run starting one hour after the last update.
\* No call of the retry policy is under examination.
PolicyAtRest == policy_call = Null

\* No call of the tolerant parse or of a mapping function is under
\* examination, and the outcomes of the gateway tasks are left open.
ParseAtRest == parse_call = Null /\ map_call = Null /\ task_outcome = <<>>

\* No call of the feed client is under examination.
ClientAtRest ==
  /\ max_retries = 0
  /\ lo_pc = "idle"
  /\ lo_attempt = 0
  /\ requests = <<>>
  /\ sleeps = <<>>
  /\ lo_result = Null

\* The supervisor is not under examination.
SupervisorAtRest ==
  /\ run_settings = [configured |-> TRUE, run_ingest_every_seconds |-> 86400,
                     run_classify_every_seconds |-> 10]
  /\ wall = 0
  /\ sv_pc = "loop"
  /\ shutting_down = FALSE
  /\ next_ingest = 0
  /\ sv_now = 0
  /\ iteration = 0
  /\ ingest_outcome = "none"
  /\ classify_outcome = "none"
  /\ log = <<>>

\* first_seen_at and last_seen_at are left out: every now() is Null.
StampsLeftOut == db_now = Null

InitIngest ==
  /\ feed = [o \in ObsIds |-> o]
  /\ clock = NumObs + 1
  /\ settings \in IngestSettings
  /\ IngestAtRest
  /\ OwnPhotos
  /\ photos = {}
  /\ observations = {}
  /\ classifications = {}
  /\ max_attempts = 1
  /\ ClassifyAtRest
  /\ PolicyAtRest
  /\ ParseAtRest
  /\ ClientAtRest
  /\ StampsLeftOut
  /\ SupervisorAtRest

NextIngest ==
  \/ IngestStart
  \/ IngestFetch
  \/ IngestStore
  \/ IngestFinish
  \/ IngestExit
  \/ RemoteUpdate

SpecIngest == InitIngest /\ [][NextIngest]_vars

\* Runs are repeated and each run proceeds; nothing forces a remote update.
SpecIngestLive ==
  /\ InitIngest
  /\ [][NextIngest]_vars
  /\ WF_vars(IngestStart)
  /\ WF_vars(IngestFetch)
  /\ WF_vars(IngestStore)
  /\ WF_vars(IngestFinish)
  /\ WF_vars(IngestExit)

\* ------------------------------------------------------------ initial store
\* The store a classify run finds: photo 0 came without any URL, the photos
\* 1..NumPhotos have the three URLs (odd ids) or only the original one, and
\* earlier runs under another model and another prompt version left a row.
PhotoRow(p) == _extract_photo_fields(p, RemotePhoto(p), 0)

ForeignStatus(k) == IF k.model = model THEN "failed" ELSE "succeeded"

ForeignRow(id, p, k) ==
  [classification_id |-> id,
   photo_id |-> p,
   observation_id |-> p,
   model_provider |-> model_provider,
   model |-> k.model,
   prompt_version |-> k.prompt_version,
   status |-> ForeignStatus(k),
   attempt_count |-> 1,
   retry_after |-> IF ForeignStatus(k) = "failed" THEN Some(utcnow) ELSE Null,
   output |-> IF ForeignStatus(k) = "succeeded" THEN Some("object") ELSE Null,
   error |-> IF ForeignStatus(k) = "succeeded" THEN Null ELSE Some("network error")]

InitClassify ==
  /\ OwnPhotos
  /\ photos = { PhotoRow(p) : p \in {0} \cup Photos }
  /\ observations =
       { _extract_observation_fields(RemoteObservation(p, utcnow)) : p \in {0} \cup Photos }
  /\ classifications =
       { ForeignRow(1, 1, [model |-> "m1", prompt_version |-> "v2"]),
         ForeignRow(2, NumPhotos, [model |-> "m2", prompt_version |-> "v1"]) }
  /\ max_attempts \in 1..MaxAttemptsLimit
  /\ ClassifyAtRest
  /\ feed = <<>>
  /\ clock = utcnow
  /\ settings = [per_page |-> 1, backfill_days |-> 0, overlap_hours |-> 0,
                 max_pages_per_run |-> 0]
  /\ IngestAtRest
  /\ PolicyAtRest
  /\ ParseAtRest
  /\ ClientAtRest
  /\ StampsLeftOut
  /\ SupervisorAtRest

NextClassify ==
  \/ ClassifySelect
  \/ ClassifyReturnEmpty
  \/ ClassifyReserve
  \/ ClassifySubmit
  \/ WorkerStart
  \/ WorkerFinish
  \/ ClassifyProcessResult
  \/ ClassifyReturn
  \/ ClassifyExit
  \/ ClassifyCrash
  \/ Tick

Spec == InitClassify /\ [][NextClassify]_vars

TypeOK ==
  /\ cl_pc \in {"idle", "selected", "reserved", "pool", "returned"}
  /\ in_pc \in {"idle", "loop", "fetched", "returned"}
  /\ \A c \in classifications : c.status \in Statuses

\* ================================================================== claims
ConfiguredRows(cls, p) ==
  { c \in cls : /\ c.photo_id = p
                /\ c.model_provider = model_provider
                /\ c.model = model
                /\ c.prompt_version = prompt_version }

TupleKeys ==
  { [photo_id |-> p, model |-> k.model, prompt_version |-> k.prompt_version]
    : p \in Photos,
      k \in ForeignKeys \cup { [model |-> model, prompt_version |-> prompt_version] } }

RowsOf(cls, k) ==
  { c \in cls : /\ c.photo_id = k.photo_id
                /\ c.model_provider = model_provider
                /\ c.model = k.model
                /\ c.prompt_version = k.prompt_version }

StatusOf(cls, k) ==
  IF RowsOf(cls, k) = {} THEN "none"
  ELSE (CHOOSE c \in RowsOf(cls, k) :
          \A d \in RowsOf(cls, k) : c.classification_id >= d.classification_id).status

AllowedTransitions ==
  { <<"none", "pending">>, <<"pending", "succeeded">>, <<"pending", "failed">>,
    <<"pending", "permanent_failed">>, <<"failed", "pending">> }

\* C1: for every tuple (photo_id, provider, model, prompt_version) the only
\* status changes a step makes are none->pending, pending->succeeded,
\* pending->failed, pending->permanent_failed and failed->pending; nothing
\* leaves succeeded or permanent_failed.
C1_StatusTransitions ==
  [][\A k \in TupleKeys :
       StatusOf(classifications, k) # StatusOf(classifications', k)
         => <<StatusOf(classifications, k), StatusOf(classifications', k)>>
              \in AllowedTransitions]_vars

\* A row that failed before has been reserved again (failed -> pending).
C1_Witness ==
  \E c \in classifications :
    /\ c \in ConfiguredRows(classifications, c.photo_id)
    /\ c.status = "pending"
    /\ c.attempt_count >= 1

\* C2: the work just selected contains no photo whose row for the configured
\* tuple is succeeded, permanent_failed or pending.
C2_TerminalStickiness ==
  cl_pc = "selected" =>
    \A i \in DOMAIN items :
      \A c \in ConfiguredRows(classifications, items[i].photo_id) :
        c.status \notin {"succeeded", "permanent_failed", "pending"}

\* A selection with room left that passed over a terminal row and a pending row.
C2_Witness ==
  /\ cl_pc = "selected"
  /\ Len(items) < limit
  /\ \E c \in classifications :
       /\ c \in ConfiguredRows(classifications, c.photo_id)
       /\ c.status \in {"succeeded", "permanent_failed"}
  /\ \E c \in classifications :
       /\ c \in ConfiguredRows(classifications, c.photo_id)
       /\ c.status = "pending"

\* An error is permanent when it is an HTTP status error other than 429/5xx.
IsPermanentError(e) ==
  /\ e.type = "HTTPStatusError"
  /\ e.status_code # 429
  /\ ~(500 <= e.status_code /\ e.status_code < 600)

\* The exception behind the reason a row's error column records.
RaisedFor(reason) ==
  CHOOSE e \in { Val(TryBlock(o).raised) : o \in { x \in WorkerOutcomes : TryBlock(x).raised # Null } } :
    _classify_retry_policy(e, 1).reason = reason

C5_FailureStep ==
  \A i \in DOMAIN futures :
    ( /\ i \in DOMAIN futures'
      /\ futures[i] = "done"
      /\ futures'[i] = "processed"
      /\ failed' = failed + 1 )
    => /\ ConfiguredRows(classifications, items[i].photo_id) # {}
       /\ \A c \in ConfiguredRows(classifications, items[i].photo_id) :
            \E d \in classifications' :
              /\ d.classification_id = c.classification_id
              /\ d.error # Null
              /\ LET e == RaisedFor(Val(d.error))
                     secs == _classify_retry_policy(e, c.attempt_count + 1).retry_after_seconds
                 IN  IF IsPermanentError(e) \/ c.attempt_count + 1 >= max_attempts
                     THEN d.status = "permanent_failed" /\ d.retry_after = Null
                     ELSE d.status = "failed" /\ d.retry_after = Some(utcnow + secs)

C5_Ceiling ==
  \A c \in classifications :
    c \in ConfiguredRows(classifications, c.photo_id) =>
      /\ c.status = "failed" =>
           c.attempt_count >= 1 /\ c.attempt_count < max_attempts
      /\ (c.status = "permanent_failed" /\ c.error # Some("client error")) =>
           c.attempt_count = max_attempts

\* C5: a failed result makes the row permanent_failed with retry_after null
\* when the error is permanent or attempt_count + 1 >= max_attempts, and
\* failed with retry_after = now + retry_seconds otherwise; hence a failed row
\* has fewer than max_attempts attempts and a row that became permanent
\* through transient failures has exactly max_attempts.
C5_AttemptCeiling == [][C5_FailureStep]_vars /\ []C5_Ceiling

\* A row that failed max_attempts >= 2 times, transiently each time.
C5_Witness ==
  /\ max_attempts >= 2
  /\ \E c \in classifications :
       /\ c \in ConfiguredRows(classifications, c.photo_id)
       /\ c.status = "permanent_failed"
       /\ c.error # Some("client error")
       /\ c.attempt_count = max_attempts

\* C6: no classification row has attempt_count greater than max_attempts + 1.
C6_AttemptBound ==
  \A c \in classifications : c.attempt_count <= max_attempts + 1

\* A row that used its last allowed attempt, successfully.
C6_Witness ==
  /\ max_attempts >= 2
  /\ \E c \in classifications :
       /\ c \in ConfiguredRows(classifications, c.photo_id)
       /\ c.status = "succeeded"
       /\ c.attempt_count = max_attempts

\* C7: at most one classification row per (photo_id, provider, model,
\* prompt_version); reserving a tuple that has a row keeps that row (same
\* classification_id) and adds none.
C7_Unique ==
  \A c \in classifications, d \in classifications :
    ( /\ c.photo_id = d.photo_id
      /\ c.model_provider = d.model_provider
      /\ c.model = d.model
      /\ c.prompt_version = d.prompt_version ) => c = d

C7_ReserveStep ==
  (cl_pc = "selected" /\ cl_pc' = "reserved") =>
    \A i \in DOMAIN items :
      LET old == ConfiguredRows(classifications, items[i].photo_id)
          new == ConfiguredRows(classifications', items[i].photo_id)
      IN  /\ Cardinality(new) = 1
          /\ \A d \in new : d.status = "pending"
          /\ old # {} => { d.classification_id : d \in new }
                           = { c.classification_id : c \in old }

C7_UniqueReservation == []C7_Unique /\ [][C7_ReserveStep]_vars

\* A reservation has just hit an existing row.
C7_Witness ==
  /\ cl_pc = "reserved"
  /\ \E i \in DOMAIN items :
       /\ items[i].attempt_count >= 1
       /\ \E c \in ConfiguredRows(classifications, items[i].photo_id) :
            c.status = "pending" /\ c.attempt_count = items[i].attempt_count

\* C8: no two outstanding gateway tasks are for the same photo of the
\* configured tuple, and no task is outstanding once the run has returned
\* (so none is when the next run starts).
C8_OneInFlight ==
  /\ \A i \in Outstanding(futures), k \in Outstanding(futures) :
       items[i].photo_id = items[k].photo_id => i = k
  /\ cl_pc \in {"returned", "idle", "selected", "reserved"} => Outstanding(futures) = {}

\* Two tasks were outstanding together and the run has returned.
C8_Witness ==
  /\ cl_pc = "returned"
  /\ Len(items) >= 2
  /\ \A i \in DOMAIN futures : futures[i] = "processed"

CursorBefore == _parse_iso(last_updated_since)
CursorStored == _parse_iso(sync_state)

\* C3 -- cursor monotonicity: in the state an ingest run returns in, if the
\* run processed at least one observation and found a stored cursor when it
\* started, the cursor now stored is >= the cursor it found, whatever the
\* feed, overlap_hours and max_pages_per_run are.
C3_CursorMonotonic ==
  (in_pc = "returned" /\ obs_count >= 1 /\ CursorBefore # Null)
    => (CursorStored # Null /\ Val(CursorStored) >= Val(CursorBefore))

\* ------------------------------------------------------------------ C4
\* A run has just started and observation o, last updated at hour t, is in
\* the feed at or after the run's updated_since.
Owed(o, t) ==
  /\ in_pc = "loop"
  /\ page = 1
  /\ obs_count = 0
  /\ feed[o] = t
  /\ t >= Val(_parse_iso(updated_since))

\* The store holds observation o as of hour t or later.
Upserted(o, t) ==
  \E r \in observations :
    /\ r.observation_id = o
    /\ r.updated_at # Null
    /\ Val(r.updated_at) >= t

\* C4 -- at-least-once ingestion: every observation that is in the feed at or
\* after updated_since when a run starts (no observation ever leaves the
\* feed) is upserted by that run or by a later run, under every interleaving
\* of remote updates with the page fetches of the runs.
C4_AtLeastOnce ==
  \A o \in ObsIds : \A t \in 1..MaxClock :
    [](Owed(o, t) => <>Upserted(o, t))

\* ----------------------------------------------------------------- C10
\* Classify runs are repeated with max_items >= 1 (cli.run passes 5, the
\* classify command defaults to 25), every started step completes, the clock
\* advances, and the process is never killed.  Nothing is assumed about the
\* outcomes of the gateway calls.
NextDrain ==
  \/ ClassifySelect
  \/ ClassifyReturnEmpty
  \/ ClassifyReserve
  \/ ClassifySubmit
  \/ WorkerStart
  \/ WorkerFinish
  \/ ClassifyProcessResult
  \/ ClassifyReturn
  \/ ClassifyExit
  \/ Tick

SpecDrain ==
  /\ InitClassify
  /\ [][NextDrain]_vars
  /\ SF_vars(ClassifySelect /\ limit' >= 1)
  /\ WF_vars(ClassifyReturnEmpty)
  /\ WF_vars(ClassifyReserve)
  /\ WF_vars(ClassifySubmit)
  /\ WF_vars(WorkerStart)
  /\ WF_vars(WorkerFinish)
  /\ WF_vars(ClassifyProcessResult)
  /\ WF_vars(ClassifyReturn)
  /\ WF_vars(ClassifyExit)
  /\ WF_vars(Tick)

HasUrl(p) ==
  p.url_large # Null \/ p.url_square # Null \/ p.url_original # Null

\* Every photo with a URL has its row for the configured tuple in a final status.
Drained ==
  \A p \in photos :
    HasUrl(p) =>
      \E c \in ConfiguredRows(classifications, p.photo_id) :
        c.status \in {"succeeded", "permanent_failed"}

\* The row of photo p for the configured tuple is failed and not yet due.
Backoff(p) ==
  \E c \in ConfiguredRows(classifications, p.photo_id) :
    c.status = "failed" /\ c.retry_after # Null /\ Val(c.retry_after) > utcnow

\* Photo p is owed an attempt now: it has a URL and no row for the configured
\* tuple, or a failed row that is due.
Due(p) ==
  /\ HasUrl(p)
  /\ \/ ConfiguredRows(classifications, p.photo_id) = {}
     \/ \E c \in ConfiguredRows(classifications, p.photo_id) :
          c.status = "failed"
          /\ (c.retry_after = Null \/ Val(c.retry_after) <= utcnow)

Selected == { items[i].photo_id : i \in DOMAIN items }

\* What a selection leaves: a photo in backoff is not selected and takes no
\* place in the batch, so a due photo is left out only when the batch is full
\* of due photos with lower ids.
NotBlocked ==
  /\ \A p \in photos : Backoff(p) => p.photo_id \notin Selected
  /\ \A p \in photos :
       (Due(p) /\ p.photo_id \notin Selected) =>
         /\ Len(items) = limit
         /\ \A q \in Selected : q < p.photo_id

\* Every selection step with max_items >= 1 ends in such a state.
C10_SelectStep ==
  (cl_pc = "idle" /\ cl_pc' = "selected" /\ limit' >= 1) => NotBlocked'

DuePhotos == { p.photo_id : p \in { q \in photos : Due(q) } }

\* items holds at most max_items photos, in strictly ascending photo_id
\* order, and they are exactly the lowest ids among the photos owed an attempt.
SelectionExact ==
  /\ Len(items) <= limit
  /\ \A i \in DOMAIN items : \A k \in DOMAIN items :
       i < k => items[i].photo_id < items[k].photo_id
  /\ Selected \subseteq DuePhotos
  /\ Len(items) = Min(limit, Cardinality(DuePhotos))
  /\ \A p \in DuePhotos \ Selected : \A q \in Selected : q < p

C11_SelectStep ==
  (cl_pc = "idle" /\ cl_pc' = "selected") => SelectionExact'

\* C11 -- work selection: every selection returns at most max_items items in
\* strictly ascending photo_id order, and they are exactly the lowest-photo_id
\* photos among those with a non-null URL variant and either no row for the
\* configured tuple or a failed row whose retry_after is null or <= now.
C11_ExactSelection == [][C11_SelectStep]_vars

\* A full batch that left a due photo out and passed over a lower photo that
\* is not due.
C11_Witness ==
  /\ cl_pc = "selected"
  /\ limit >= 1
  /\ Len(items) = limit
  /\ \/ DuePhotos \ Selected # {}
     \/ \E p \in photos : \E q \in Selected :
          HasUrl(p) /\ p.photo_id < q /\ p.photo_id \notin DuePhotos

\* ----------------------------------------------------------------- C12
\* HTTP statuses in 400-499 other than 429: the ends of the range and the
\* neighbours of 429.
ClientStatuses == {400, 401, 428, 430, 499}

\* The failures of a gateway call with such a status, with and without a
\* Retry-After header.
ClientFailures ==
  { [raised |-> Some(Exc("HTTPStatusError", s, h)), content |-> Null] :
      s \in ClientStatuses,
      h \in {Null, Some([isdigit |-> TRUE, int |-> 0])} }

\* Whenever a result is about to be processed: were it a client failure, the
\* row would become permanent_failed with retry_after null and one more
\* attempt, and the selection of every photo that is due would leave its
\* photo out.
C12_OnThatAttempt ==
  \A i \in DOMAIN futures :
    futures[i] = "done" =>
      \A o \in ClientFailures :
        LET after == ProcessOutcome(classifications, items[i], o, max_attempts)
            rows == ConfiguredRows(after, items[i].photo_id)
        IN  /\ rows # {}
            /\ \A d \in rows :
                 /\ d.status = "permanent_failed"
                 /\ d.retry_after = Null
                 /\ d.attempt_count = items[i].attempt_count + 1
            /\ \A w \in Range(_select_next_work(photos, observations, after,
                                               model_provider, model,
                                               prompt_version, NumPhotos + 1)) :
                 w.photo_id # items[i].photo_id

\* A row that a client failure made permanent stays as it is and its photo
\* is in no later selection.
C12_Stays ==
  \A c \in classifications :
    ( /\ c \in ConfiguredRows(classifications, c.photo_id)
      /\ c.status = "permanent_failed"
      /\ c.error = Some("client error") )
    => /\ c \in classifications'
       /\ (cl_pc = "idle" /\ cl_pc' = "selected")
            => \A k \in DOMAIN items' : items'[k].photo_id # c.photo_id

\* C12 -- permanent 4xx: a gateway failure with an HTTP status in 400-499
\* other than 429 makes the row permanent_failed with retry_after null on
\* that very attempt, for every max_attempts and every prior attempt_count,
\* and the row is never selected again.
C12_Permanent4xx == []C12_OnThatAttempt /\ [][C12_Stays]_vars

\* A client failure ended a row on its first attempt although max_attempts
\* allowed more, and a later selection has passed it over.
C12_Witness ==
  /\ cl_pc = "selected"
  /\ \E c \in classifications :
       /\ c \in ConfiguredRows(classifications, c.photo_id)
       /\ c.status = "permanent_failed"
       /\ c.error = Some("client error")
       /\ c.retry_after = Null
       /\ c.attempt_count < max_attempts

(***************************************************************************)
(* The retry policy on its own: _classify_retry_policy applied to each     *)
(* kind of exception the result loop can catch, at each attempt number.    *)
(***************************************************************************)

\* the largest attempt_count an examined call reads from its work item
MaxPriorAttempts == 7

\* Retry-After of a response: absent, "0", "120", or an HTTP date.
RetryAfterHeaders ==
  { Null, Some([isdigit |-> TRUE, int |-> 0]), Some([isdigit |-> TRUE, int |-> 120]),
    Some([isdigit |-> FALSE, int |-> 0]) }

\* The exceptions the except clause of the result loop can catch.
CaughtErrors ==
  { Exc("HTTPStatusError", 429, h) : h \in RetryAfterHeaders }
    \cup { Exc("HTTPStatusError", s, Null) : s \in {400, 499, 500, 503, 599} }
    \cup { Exc(t, 0, Null) :
             t \in {"TimeoutException", "RequestError", "JSONDecodeError", "KeyError"} }

\* A failed result is about to be handled: the exception and the
\* attempt_count of its work item are drawn, nothing else is going on.
InitPolicy ==
  /\ policy_call \in { Some([error |-> e, attempt_count |-> a, policy |-> Null]) :
                         e \in CaughtErrors, a \in 0..MaxPriorAttempts }
  /\ ParseAtRest
  /\ photos = {}
  /\ observations = {}
  /\ classifications = {}
  /\ max_attempts = 1
  /\ ClassifyAtRest
  /\ feed = <<>>
  /\ clock = utcnow
  /\ settings = [per_page |-> 1, backfill_days |-> 0, overlap_hours |-> 0,
                 max_pages_per_run |-> 0]
  /\ IngestAtRest
  /\ OwnPhotos
  /\ StampsLeftOut
  /\ SupervisorAtRest
  /\ ClientAtRest

\* attempt = item.attempt_count + 1; _classify_retry_policy(e, attempt=attempt)
PolicyCall ==
  /\ policy_call # Null
  /\ Val(policy_call).policy = Null
  /\ policy_call' =
       Some([Val(policy_call) EXCEPT
               !.policy = Some(_classify_retry_policy(Val(policy_call).error,
                                                      Val(policy_call).attempt_count + 1))])
  /\ UNCHANGED <<cvars, ivars, lvars, svars, parse_call, map_call, task_outcome>>

NextPolicy == PolicyCall

SpecPolicy == InitPolicy /\ [][NextPolicy]_vars

\* ----------------------------------------------------------------- C13
\* min(c, b * 2^(k-1))
Schedule(b, c, k) == IF c < b * 2^(k - 1) THEN c ELSE b * 2^(k - 1)

NumericRetryAfter(e) == e.header # Null /\ Val(e.header).isdigit

\* The kinds of failure the retry table calls transient.
TransientKind(e) ==
  \/ e.type = "HTTPStatusError" /\ (e.status_code = 429 \/ e.status_code \in 500..599)
  \/ e.type # "HTTPStatusError"

\* The delay the retry table gives failure e at 1-based attempt k.
TableDelay(e, k) ==
  IF e.type = "HTTPStatusError" /\ e.status_code = 429
  THEN IF NumericRetryAfter(e) THEN Val(e.header).int ELSE Schedule(10, 300, k)
  ELSE IF e.type = "HTTPStatusError" THEN Schedule(30, 1800, k)
  ELSE IF e.type \in {"TimeoutException", "RequestError"} THEN Schedule(10, 600, k)
  ELSE IF e.type = "JSONDecodeError" THEN Schedule(60, 1800, k)
  ELSE Schedule(60, 3600, k)

CountOf(cls, id) ==
  IF \E c \in cls : c.classification_id = id
  THEN Some((CHOOSE c \in cls : c.classification_id = id).attempt_count)
  ELSE Null

RowIds(cls) == { c.classification_id : c \in cls }

\* No row disappears and no attempt_count goes down.
C14_NeverDecreases ==
  \A id \in RowIds(classifications) :
    /\ id \in RowIds(classifications')
    /\ Val(CountOf(classifications', id)) >= Val(CountOf(classifications, id))

\* The reservation step keeps the counts of the rows it found and starts
\* the rows it inserts at 0.
C14_Reservation ==
  (cl_pc = "selected" /\ cl_pc' = "reserved") =>
    \A id \in RowIds(classifications') :
      IF id \in RowIds(classifications)
      THEN CountOf(classifications', id) = CountOf(classifications, id)
      ELSE CountOf(classifications', id) = Some(0)

\* Processing the result of items[i] adds one to the row of its photo for
\* the configured tuple, whatever the result, and leaves every other count.
C14_Result ==
  \A i \in DOMAIN futures :
    (futures[i] = "done" /\ i \in DOMAIN futures' /\ futures'[i] = "processed") =>
      \A c \in classifications :
        IF c \in ConfiguredRows(classifications, items[i].photo_id)
        THEN CountOf(classifications', c.classification_id) = Some(c.attempt_count + 1)
        ELSE CountOf(classifications', c.classification_id) = Some(c.attempt_count)

\* What every step does to the counts.
C14_Step == C14_NeverDecreases /\ C14_Reservation /\ C14_Result

\* C14 -- attempt_count of a classification row never decreases: the
\* reservation (insert or re-reservation on conflict) leaves it unchanged, 0
\* on first insert, and every processed result, success or failure, adds
\* exactly one.
C14_AttemptCount == [][C14_Step]_vars

\* A row that failed once and succeeded on its second attempt has count 2.
C14_Witness ==
  \E c \in classifications :
    /\ c \in ConfiguredRows(classifications, c.photo_id)
    /\ c.status = "succeeded"
    /\ c.attempt_count = 2

\* ----------------------------------------------------------------- C15
\* C15 -- in every reachable state every classification row with status
\* succeeded has a non-null output, the parsed JSON object, and a null
\* retry_after.
C15_SucceededHasOutput ==
  \A c \in classifications :
    c.status = "succeeded" =>
      /\ c.output # Null
      /\ c.output = Some("object")
      /\ c.retry_after = Null

\* A row succeeded on a retry: the retry_after its failure had set is gone.
C15_Witness ==
  \E c \in classifications :
    /\ c \in ConfiguredRows(classifications, c.photo_id)
    /\ c.status = "succeeded"
    /\ c.attempt_count >= 2
    /\ c.output # Null
    /\ c.retry_after = Null

\* ----------------------------------------------------------------- C16
\* C16 -- in every reachable state every classification row with status
\* permanent_failed has a null retry_after, whether a permanent error or
\* exhausted attempts made it permanent.
C16_PermanentHasNoRetry ==
  \A c \in classifications :
    c.status = "permanent_failed" => c.retry_after = Null

\* One row was ended by a client error on its first attempt, another by a
\* transient error on its last allowed attempt, after a scheduled retry.
C16_Witness ==
  \E c, d \in classifications :
    /\ c \in ConfiguredRows(classifications, c.photo_id)
    /\ d \in ConfiguredRows(classifications, d.photo_id)
    /\ c.status = "permanent_failed"
    /\ c.error = Some("client error")
    /\ c.attempt_count = 1
    /\ d.status = "permanent_failed"
    /\ d.error # Some("client error")
    /\ d.attempt_count = 2
    /\ max_attempts = 2

\* ----------------------------------------------------------------- C17
\* The step that records the result of items[i] leaves the row of its photo,
\* if failed, with retry_after null or strictly later than utcnow, the
\* moment of that step.
C17_RecordStep ==
  \A i \in DOMAIN futures :
    (futures[i] = "done" /\ i \in DOMAIN futures' /\ futures'[i] = "processed") =>
      \A d \in ConfiguredRows(classifications', items[i].photo_id) :
        d.status = "failed" =>
          \/ d.retry_after = Null
          \/ Val(d.retry_after) > utcnow

\* C17 -- every classification row with status failed has a retry_after that
\* is either null or, at the moment the failure is recorded, strictly later
\* than that moment, for every transient error kind of the retry table and
\* every attempt number.
C17_FutureRetry == [][C17_RecordStep]_vars

\* ----------------------------------------------------------------- C18
\* What a write sets in a classification row; retry_after is left out
\* because the passing of time moves it too.
Written(c) ==
  [classification_id |-> c.classification_id, status |-> c.status,
   attempt_count |-> c.attempt_count, output |-> c.output, error |-> c.error]

\* The classification rows this step wrote.
WrittenRows ==
  { d \in classifications' : \A c \in classifications : Written(c) # Written(d) }

\* The futures whose result this step processed.
ProcessedNow ==
  { i \in DOMAIN futures :
      futures[i] = "done" /\ i \in DOMAIN futures' /\ futures'[i] = "processed" }

\* A step of a worker task, from submission to completion, leaves the three
\* tables and the commit count as they are.
C18_WorkerStep ==
  (\E i \in DOMAIN futures :
      /\ i \in DOMAIN futures'
      /\ futures[i] \in {"queued", "running"}
      /\ futures'[i] \in {"running", "done"}
      /\ futures'[i] # futures[i])
  => /\ WrittenRows = {}
     /\ UNCHANGED <<photos, observations, commits>>

\* While the pool runs, a step that writes classification rows or commits
\* is the controller processing one result: it writes the one row of that
\* item and commits once.
C18_ControllerStep ==
  (cl_pc = "pool" /\ cl_pc' = "pool") =>
    /\ (WrittenRows # {} \/ commits' # commits) => Cardinality(ProcessedNow) = 1
    /\ \A i \in ProcessedNow :
         /\ WrittenRows \subseteq ConfiguredRows(classifications', items[i].photo_id)
         /\ Cardinality(WrittenRows) = 1
         /\ commits' = commits + 1

\* C18 -- single writer: worker tasks perform only the gateway call and
\* never read or write the database; every classification write and commit
\* is the controller's, one result at a time, with exactly one commit per
\* processed result.
C18_SingleWriter == [][C18_WorkerStep /\ C18_ControllerStep]_vars

\* Two tasks were submitted, both results have been processed, and the run
\* has committed once for the reservation and once for each result.
C18_Witness ==
  /\ cl_pc = "pool"
  /\ Len(futures) = 2
  /\ \A i \in DOMAIN futures : futures[i] = "processed"
  /\ commits = 3

\* ----------------------------------------------------------------- C19
\* C19 -- bounded concurrency: at every moment of a classify run the number
\* of gateway calls in flight is at most max(1, max_workers), whatever the
\* number of reserved items.
C19_BoundedConcurrency ==
  /\ max_workers >= 1
  /\ Cardinality(Running(futures)) <= max_workers

\* More items were reserved than the pool has threads: one call is in
\* flight and another task waits in the queue.
C19_Witness ==
  /\ cl_pc = "pool"
  /\ Len(items) > max_workers
  /\ Cardinality(Running(futures)) = max_workers
  /\ \E i \in DOMAIN futures : futures[i] = "queued"

(***************************************************************************)
(* Ingest run after ingest run over a feed nobody edits, into a store      *)
(* whose first_seen_at and last_seen_at are followed.                      *)
(***************************************************************************)
InitRerun ==
  /\ feed \in [ObsIds -> 1..NumObs]
  /\ clock = NumObs + 1
  /\ settings \in IngestSettings
  /\ IngestAtRest
  /\ OwnPhotos
  /\ db_now = Some(1)
  /\ SupervisorAtRest
  /\ photos = {}
  /\ observations = {}
  /\ classifications = {}
  /\ max_attempts = 1
  /\ ClassifyAtRest
  /\ PolicyAtRest
  /\ ParseAtRest
  /\ ClientAtRest

NextRerun ==
  \/ IngestStart
  \/ IngestFetch
  \/ IngestStore
  \/ IngestFinish
  \/ IngestExit

SpecRerun == InitRerun /\ [][NextRerun]_vars

\* ----------------------------------------------------------------- C20
\* A row without its last_seen_at: the key, the remote-derived columns and
\* first_seen_at.
Kept(r) == [r EXCEPT !.last_seen_at = Null]

\* The run in progress began from a store a previous run had left a cursor in.
Rerun == last_updated_since # Null

\* A step of such a run keeps the set of rows, their remote-derived columns
\* and their first_seen_at.
C20_RowsKept ==
  Rerun =>
    /\ { Kept(r) : r \in observations' } = { Kept(r) : r \in observations }
    /\ { Kept(r) : r \in photos' } = { Kept(r) : r \in photos }

\* The loop of the run has ended: the page bound is reached or the page
\* fetched is empty.
LoopEnded ==
  \/ in_pc = "loop" /\ PageBoundReached
  \/ in_pc = "fetched" /\ results = <<>>

\* The transactions of the run in progress began at these times: one per
\* page stored.
RunTimes == (Val(db_now) - (page - 1)) .. (Val(db_now) - 1)

\* When the loop of such a run has ended, every row was seen in this run.
C20_AllSeenAgain ==
  (Rerun /\ LoopEnded) =>
    \A r \in observations \cup photos : Val(r.last_seen_at) \in RunTimes

\* C20 -- idempotence of ingest: a second run performed
\* immediately after a successful one, with no remote changes, leaves the
\* set of observation and photo rows and their remote-derived columns
\* identical, leaves first_seen_at of every row unchanged and updates
\* last_seen_at of every row.
C20_Idempotent == [][C20_RowsKept]_vars /\ []C20_AllSeenAgain

\* ----------------------------------------------------------------- C21
\* The ids of the observations on the page just fetched.
FetchedIds == { results[i].id : i \in DOMAIN results }

\* The primary key of an observation or photo row.
RowKey(r) == IF "photo_id" \in DOMAIN r THEN r.photo_id ELSE r.observation_id

\* What a step does to the seen stamps of the rows of one table: a row that
\* was there keeps its first_seen_at; the step that stores a page gives every
\* row of the page the time of its transaction as last_seen_at, and as
\* first_seen_at too if the row is new; no other row is touched.
SeenStep(before, after) ==
  /\ \A r \in before :
       \E d \in after : RowKey(d) = RowKey(r) /\ d.first_seen_at = r.first_seen_at
  /\ \A d \in after :
       IF in_pc = "fetched" /\ in_pc' = "loop" /\ d.observation_id \in FetchedIds
       THEN /\ d.last_seen_at = now
            /\ (\A r \in before : RowKey(r) # RowKey(d)) => d.first_seen_at = now
       ELSE d \in before

C21_Step == SeenStep(observations, observations') /\ SeenStep(photos, photos')

C21_Ordered ==
  \A r \in observations \cup photos : Val(r.first_seen_at) <= Val(r.last_seen_at)

\* C21 -- for every observation and photo row, first_seen_at is set on the
\* first insert and never changed by a later upsert, every upsert of the row
\* (insert or key conflict) sets last_seen_at to the time of that upsert, and
\* so first_seen_at <= last_seen_at always.
C21_SeenStamps == [][C21_Step]_vars /\ []C21_Ordered

\* An observation and its photo were upserted again in a later transaction.
C21_Witness ==
  \E r \in observations : \E p \in photos :
    /\ p.observation_id = r.observation_id
    /\ Val(r.first_seen_at) < Val(r.last_seen_at)
    /\ Val(p.first_seen_at) < Val(p.last_seen_at)

\* ----------------------------------------------------------------- C22
\* The updated_at of the observations on pages 1..page-1 of the feed as the
\* run in progress queries it: what the run has processed, the feed being
\* left alone.
ProcessedTimes ==
  { f.updated_at :
      f \in { _extract_observation_fields(o) :
                o \in UNION { Range(list_observations(feed, settings.per_page, k,
                                                      Val(updated_since)).results)
                              : k \in 1..(page - 1) } } }

LatestOf(times) == CHOOSE t \in times : \A u \in times : Val(u) <= Val(t)

\* The step on which a run returns stores the latest updated_at it processed
\* if it processed anything and leaves the cursor alone if not; no other
\* step touches the cursor.
C22_Step ==
  IF in_pc # "returned" /\ in_pc' = "returned"
  THEN IF ProcessedTimes = {}
       THEN obs_count = 0 /\ sync_state' = sync_state
       ELSE obs_count > 0 /\ _parse_iso(sync_state') = LatestOf(ProcessedTimes)
  ELSE sync_state' = sync_state

\* C22 -- a run that returns normally having processed at least one
\* observation stores as the new cursor the maximum updated_at over all
\* observations processed in that run; a run that processed no observation
\* leaves the stored cursor exactly as it was.
C22_CursorIsRunMaximum == [][C22_Step]_vars

\* A run over two pages has returned and the cursor is the later of the two
\* updated_at values.
C22_Witness ==
  /\ in_pc = "returned"
  /\ page = 3
  /\ obs_count >= 2
  /\ Cardinality(ProcessedTimes) = 2
  /\ _parse_iso(sync_state) = LatestOf(ProcessedTimes)

(***************************************************************************)
(* Ingest runs that may abort, over a feed nobody edits.                   *)
(***************************************************************************)
\* Variant: the connection commits every statement, so the first observation
\* of the failing page stays stored.
IngestAbort_Autocommit ==
  /\ \/ in_pc = "loop" /\ ~PageBoundReached
     \/ in_pc = "fetched" /\ results # <<>>
  /\ in_pc' = "idle"
  /\ last_updated_since' = Null
  /\ updated_since' = Null
  /\ page' = 1
  /\ results' = <<>>
  /\ max_updated_at' = Null
  /\ obs_count' = 0
  /\ photo_count' = 0
  /\ stats' = Null
  /\ db_now' = commit(db_now)
  /\ observations' = IF results = <<>> THEN observations
                     ELSE UpsertObservation(observations,
                                            _extract_observation_fields(results[1]))
  /\ UNCHANGED <<feed, photo_of, clock, settings, sync_state, photos, cctl, xvars>>

\* list_observations raises (retries used up, or a client error) or an
\* upsert of the page raises: the exception leaves ingest_inat through
\* `finally: client.close()` and the `with connect(...)` block, which rolls
\* the open transaction back and closes the connection.
IngestAbort ==
  /\ \/ in_pc = "loop" /\ ~PageBoundReached
     \/ in_pc = "fetched" /\ results # <<>>
  /\ in_pc' = "idle"
  /\ last_updated_since' = Null
  /\ updated_since' = Null
  /\ page' = 1
  /\ results' = <<>>
  /\ max_updated_at' = Null
  /\ obs_count' = 0
  /\ photo_count' = 0
  /\ stats' = Null
  /\ db_now' = commit(db_now)
  /\ UNCHANGED <<feed, photo_of, clock, settings, sync_state, photos, observations, cctl, xvars>>

InitAbort ==
  /\ feed \in [ObsIds -> 1..NumObs]
  /\ clock = NumObs + 1
  /\ settings \in IngestSettings
  /\ IngestAtRest
  /\ OwnPhotos
  /\ StampsLeftOut
  /\ SupervisorAtRest
  /\ photos = {}
  /\ observations = {}
  /\ classifications = {}
  /\ max_attempts = 1
  /\ ClassifyAtRest
  /\ PolicyAtRest
  /\ ParseAtRest
  /\ ClientAtRest

NextAbort ==
  \/ IngestStart
  \/ IngestFetch
  \/ IngestStore
  \/ IngestFinish
  \/ IngestExit
  \/ IngestAbort

SpecAbort == InitAbort /\ [][NextAbort]_vars

\* ----------------------------------------------------------------- C23
\* The step is the abort of a run at its page number `page`.
AbortStep == in_pc \in {"loop", "fetched"} /\ in_pc' = "idle"

\* The observations of pages 1..page-1 of the feed as the run queries it.
EarlierPages ==
  UNION { Range(list_observations(feed, settings.per_page, k,
                                  Val(updated_since)).results)
          : k \in 1..(page - 1) }

\* Observation o of the feed and its photo are stored as the feed has them.
Stored(o, obs, ph) ==
  /\ \E r \in obs : /\ r.observation_id = o.id
                    /\ r.updated_at = _parse_iso(o.updated_at)
  /\ \E p \in ph : p.photo_id = o.photos[1].id /\ p.observation_id = o.id

\* What the abort leaves: the cursor the run read at its start, the rows of
\* the pages before the failing one, each counted once, and nothing else
\* than what was stored when the failing page began.
C23_AfterAbort ==
  AbortStep =>
    /\ sync_state' = last_updated_since
    /\ sync_state' = sync_state
    /\ \A o \in EarlierPages : Stored(o, observations', photos')
    /\ obs_count = Cardinality(EarlierPages)
    /\ observations' = observations
    /\ photos' = photos

\* A run starts from the stored cursor minus the overlap.
C23_NextRun ==
  (in_pc = "idle" /\ in_pc' = "loop" /\ sync_state # Null) =>
    /\ _parse_dt(updated_since')
         = Some(Val(_parse_iso(sync_state)) - settings.overlap_hours)
    /\ sync_state' = sync_state

\* C23 -- when an ingest run aborts with an error while fetching or storing
\* page k, the stored cursor equals its value before the run, the
\* observations and photos of pages 1..k-1 remain stored (each page was
\* committed once), no row of page k is stored, and the next run queries
\* from that unchanged cursor minus the overlap.
C23_AbortKeepsProgress == [][C23_AfterAbort /\ C23_NextRun]_vars

\* A run was aborted on its second page: the observation of its first page
\* is stored, another observation of the feed is not, and no cursor is.
C23_Witness ==
  /\ in_pc = "idle"
  /\ sync_state = Null
  /\ Cardinality(observations) = 1
  /\ Cardinality(photos) = 1
  /\ settings.per_page = 1
  /\ settings.max_pages_per_run = 0
  /\ settings.backfill_days = 1

\* ----------------------------------------------------------------- C24
\* A page as the feed must serve it: at most per_page observations, each
\* updated at or after updated_since, in ascending order of updated_at.
WellFormedPage(rows, since_text) ==
  /\ Len(rows) <= settings.per_page
  /\ \A i \in DOMAIN rows :
       Val(_parse_dt(rows[i].updated_at)) >= Val(_parse_dt(Some(since_text)))
  /\ \A i \in DOMAIN rows : \A k \in DOMAIN rows :
       i < k => Val(_parse_dt(rows[i].updated_at)) <= Val(_parse_dt(rows[k].updated_at))

\* How a run moves through the pages.
C24_Step ==
  /\ (in_pc = "idle" /\ in_pc' = "loop") => page' = 1
  /\ (in_pc = "loop" /\ in_pc' = "fetched") =>
       /\ page' = page
       /\ settings.max_pages_per_run = 0 \/ page <= settings.max_pages_per_run
       /\ WellFormedPage(results', Val(updated_since))
       /\ results' = list_observations(feed, settings.per_page, page,
                                       Val(updated_since)).results
  /\ (in_pc = "fetched" /\ in_pc' = "loop") => (results # <<>> /\ page' = page + 1)
  /\ (in_pc \in {"loop", "fetched"} /\ in_pc' \in {"loop", "fetched"}) =>
       updated_since' = updated_since
  /\ (in_pc = "fetched" /\ results = <<>>) => in_pc' \in {"fetched", "returned"}
  /\ (in_pc = "loop" /\ settings.max_pages_per_run > 0
        /\ page > settings.max_pages_per_run) => in_pc' \in {"loop", "returned"}
  /\ (in_pc # "returned" /\ in_pc' = "returned") =>
       \/ in_pc = "fetched" /\ results = <<>>
       \/ /\ in_pc = "loop"
          /\ settings.max_pages_per_run > 0
          /\ page = settings.max_pages_per_run + 1

\* C24 -- ingest paging: a run requests pages 1, 2, 3, ... strictly in
\* sequence, ascending by updated_at and with the same updated_since, and
\* stops at the first empty page or, when max_pages_per_run > 0, after
\* exactly max_pages_per_run pages have been fetched (0 means no bound);
\* against a feed with finitely many non-empty pages the run terminates.
C24_Paging == [][C24_Step]_vars /\ (in_pc = "loop" ~> in_pc = "returned")

\* A run has stopped at its page bound after one full page although the
\* feed held more for it.
C24_Witness ==
  /\ in_pc = "returned"
  /\ settings.max_pages_per_run = 1
  /\ page = 2
  /\ obs_count = settings.per_page
  /\ list_observations(feed, settings.per_page, 2, Val(updated_since)).results # <<>>

\* ------------------------------------------------------- the feed client
\* InatClient defaults, in milliseconds.
_sleep_seconds == 500
_retry_backoff_seconds == 2000

\* Retry-After headers: absent, "7", "soon", and a digit character that
\* str.isdigit() accepts and float() rejects (U+00B2).
ClientRetryAfterHeaders ==
  { Null,
    Some([isdigit |-> TRUE, float |-> Some(7000)]),
    Some([isdigit |-> FALSE, float |-> Null]),
    Some([isdigit |-> TRUE, float |-> Null]) }

\* What one GET /observations can come back with: a page, a 2xx body that
\* is not JSON, a status raise_for_status() rejects, a network failure.
Responses ==
  { [kind |-> "page", status |-> 200, header |-> Null, error |-> "none"],
    [kind |-> "not_json", status |-> 200, header |-> Null, error |-> "JSONDecodeError"] }
    \cup { [kind |-> "status", status |-> 429, header |-> h, error |-> "HTTPStatusError"] :
             h \in ClientRetryAfterHeaders }
    \cup { [kind |-> "status", status |-> c, header |-> Null, error |-> "HTTPStatusError"] :
             c \in {301, 400, 404, 500, 599} }
    \cup { [kind |-> "network", status |-> 0, header |-> Null, error |-> e] :
             e \in {"TimeoutException", "RequestError"} }

\* An exception that is not a response: resp.json() or float() failed.
Raises(e) == [kind |-> "exception", status |-> 0, header |-> Null, error |-> e]

\* Variant: one more attempt than configured.
RetriesExhausted_OffByOne(a) == a > max_retries + 1

\* if attempt > self._max_retries: raise
RetriesExhausted(a) == a > max_retries

\* A client with max_retries of 0..MaxRetriesLimit, about to be called.
InitClient ==
  /\ max_retries \in 0..MaxRetriesLimit
  /\ lo_pc = "idle"
  /\ lo_attempt = 0
  /\ requests = <<>>
  /\ sleeps = <<>>
  /\ lo_result = Null
  /\ PolicyAtRest
  /\ ParseAtRest
  /\ photos = {}
  /\ observations = {}
  /\ classifications = {}
  /\ max_attempts = 1
  /\ ClassifyAtRest
  /\ feed = <<>>
  /\ clock = utcnow
  /\ settings = [per_page |-> 1, backfill_days |-> 0, overlap_hours |-> 0,
                 max_pages_per_run |-> 0]
  /\ IngestAtRest
  /\ OwnPhotos
  /\ StampsLeftOut
  /\ SupervisorAtRest

\* list_observations is entered: attempt = 0
ListCall ==
  /\ lo_pc = "idle"
  /\ lo_pc' = "try"
  /\ lo_attempt' = 0
  /\ requests' = <<>>
  /\ sleeps' = <<>>
  /\ lo_result' = Null
  /\ UNCHANGED <<cvars, ivars, pvars, svars, max_retries>>

\* One pass of the while True loop: the request, then its try or except arm.
ListRequest ==
  /\ lo_pc = "try"
  /\ \E resp \in Responses :
       LET a == lo_attempt + 1
           n == Len(requests) + 1
           Return(v) == /\ lo_pc' = "returned"
                        /\ lo_result' = Some([raised |-> FALSE, value |-> v])
           Raise(e) == /\ lo_pc' = "raised"
                       /\ lo_result' = Some([raised |-> TRUE, value |-> e])
                       /\ sleeps' = sleeps
           Continue(ms) == /\ lo_pc' = "try"
                           /\ lo_result' = lo_result
                           /\ sleeps' = Append(sleeps, [after |-> n, ms |-> ms])
       IN
       /\ requests' = Append(requests, resp)
       /\ IF resp.kind = "page" THEN
            /\ lo_attempt' = lo_attempt
            /\ sleeps' = Append(sleeps, [after |-> n, ms |-> _sleep_seconds])
            /\ Return(resp)
          ELSE IF resp.kind = "not_json" THEN
            /\ lo_attempt' = lo_attempt
            /\ Raise(Raises("JSONDecodeError"))
          ELSE IF resp.kind = "status" THEN
            /\ lo_attempt' = a
            /\ IF RetriesExhausted(a) THEN Raise(resp)
               ELSE IF resp.status = 429 THEN
                 IF resp.header # Null /\ Val(resp.header).isdigit
                 THEN IF Val(resp.header).float = Null
                      THEN Raise(Raises("ValueError"))
                      ELSE Continue(Val(Val(resp.header).float))
                 ELSE Continue(_retry_backoff_seconds * a)
               ELSE IF resp.status \in 500..599 THEN Continue(_retry_backoff_seconds * a)
               ELSE Raise(resp)
          ELSE
            /\ lo_attempt' = a
            /\ IF RetriesExhausted(a) THEN Raise(resp)
               ELSE Continue(_retry_backoff_seconds * a)
  /\ UNCHANGED <<cvars, ivars, pvars, svars, max_retries>>

\* The caller has the page or the exception.
ListDone ==
  /\ lo_pc \in {"returned", "raised"}
  /\ lo_pc' = "idle"
  /\ UNCHANGED <<cvars, ivars, pvars, svars, max_retries, lo_attempt, requests, sleeps,
                 lo_result>>

NextClient == ListCall \/ ListRequest \/ ListDone

SpecClient == InitClient /\ [][NextClient]_vars

\* ----------------------------------------------------------------- C25
\* The failures the call retries.
Retried(r) ==
  \/ r.kind = "network"
  \/ r.kind = "status" /\ (r.status = 429 \/ r.status \in 500..599)

\* An HTTP 4xx other than 429.
ClientError(r) == r.kind = "status" /\ r.status \in 400..499 /\ r.status # 429

Raised(e) == lo_pc # "try" /\ lo_result = Some([raised |-> TRUE, value |-> e])

\* C25 -- feed retry bound: one list_observations call issues at most
\* max_retries + 1 HTTP requests in total, counting 429, 5xx and network
\* failures against the same budget; it returns the page if a request
\* succeeds within that budget, raises the last error once the budget is
\* exceeded, and raises after a single request, without sleeping, on an
\* HTTP 4xx other than 429.
C25_FeedRetryBound ==
  /\ Len(requests) <= max_retries + 1
  /\ lo_attempt = Cardinality({ i \in DOMAIN requests : requests[i].kind \in {"status", "network"} })
  /\ \A i \in DOMAIN requests : i < Len(requests) => Retried(requests[i])
  /\ requests # <<>> =>
       LET last == requests[Len(requests)] IN
       /\ last.kind = "page" =>
            lo_pc # "try" /\ lo_result = Some([raised |-> FALSE, value |-> last])
       /\ (Retried(last) /\ Len(requests) = max_retries + 1) => Raised(last)
       /\ lo_result = Some([raised |-> TRUE, value |-> last]) =>
            \/ Len(requests) = max_retries + 1
            \/ last.kind = "status" /\ ~Retried(last)
       /\ ClientError(last) =>
            /\ Raised(last)
            /\ \A i \in DOMAIN sleeps : sleeps[i].after < Len(requests)
            /\ Len(requests) = 1 \/ Retried(requests[Len(requests) - 1])

\* The budget of two retries was used up by a 429, a 5xx and a network
\* failure, and the last one was raised.
C25_Witness ==
  /\ max_retries = 2
  /\ Len(requests) = 3
  /\ requests[1].status = 429
  /\ requests[2].status \in 500..599
  /\ requests[3].kind = "network"
  /\ Raised(requests[3])
  /\ lo_pc = "raised"

\* ------------------------------------------- ingest and classify in turn
\* The supervisor's thread runs an ingest run and a classify run one after
\* the other against the same store, while the feed goes on changing.  The
\* feed holds two observations; each carries the photo of its own id, or
\* both carry photo 1.
InitPipeline ==
  /\ feed = [o \in {1, 2} |-> o]
  /\ photo_of \in { [o \in {1, 2} |-> o], [o \in {1, 2} |-> 1] }
  /\ clock = MaxClock - 1
  /\ settings = [per_page |-> 1, backfill_days |-> 1, overlap_hours |-> 0,
                 max_pages_per_run |-> 0]
  /\ IngestAtRest
  /\ photos = {}
  /\ observations = {}
  /\ classifications = {}
  /\ max_attempts = 2
  /\ ClassifyAtRest
  /\ PolicyAtRest
  /\ ParseAtRest
  /\ ClientAtRest
  /\ StampsLeftOut
  /\ SupervisorAtRest

NextPipeline ==
  \/ cl_pc = "idle" /\ IngestStart
  \/ IngestFetch
  \/ IngestStore
  \/ IngestFinish
  \/ IngestExit
  \/ RemoteUpdate
  \/ in_pc = "idle" /\ ClassifySelect
  \/ ClassifyReturnEmpty
  \/ ClassifyReserve
  \/ ClassifySubmit
  \/ WorkerStart
  \/ WorkerFinish
  \/ ClassifyProcessResult
  \/ ClassifyReturn
  \/ ClassifyExit
  \/ ClassifyCrash
  \/ Tick

SpecPipeline == InitPipeline /\ [][NextPipeline]_vars

\* ----------------------------------------------------------------- C26
ObservationIds(obs) == { r.observation_id : r \in obs }
PhotoIds(ph) == { r.photo_id : r \in ph }

\* No step deletes an observation or a photo.
C26_NoDelete ==
  /\ ObservationIds(observations) \subseteq ObservationIds(observations')
  /\ PhotoIds(photos) \subseteq PhotoIds(photos')

\* C26 -- referential integrity of photos: in every reachable state every
\* photo row's observation_id refers to an existing observation row, each
\* observation being upserted before its photos and no row ever deleted.
C26_PhotosReferToObservations ==
  /\ [](\A p \in photos : p.observation_id \in ObservationIds(observations))
  /\ [][C26_NoDelete]_vars

\* Photo 1, stored under observation 1 first, now belongs to observation 2,
\* and both observations are stored.
C26_Witness ==
  /\ ObservationIds(observations) = {1, 2}
  /\ \E p \in photos : p.photo_id = 1 /\ p.observation_id = 2
  /\ \E c \in classifications : c.photo_id = 1

\* ----------------------------------------------------------------- C27
\* C27 -- in every reachable state, every classification row refers to an
\* existing photo and its observation_id equals the observation_id
\* currently stored on that photo, after any sequence of ingest runs (a
\* later ingest that upserts the same photo_id under a different
\* observation included) and classify runs (re-reservation included).
C27_ClassificationsFollowPhotos ==
  \A c \in classifications :
    \E p \in photos : p.photo_id = c.photo_id /\ p.observation_id = c.observation_id

\* ------------------------------------------------------- the supervisor
\* The settings run reads: whether OPENROUTER_API_KEY and OPENROUTER_MODEL
\* are both set, and the two periods (neither is validated).
RunSettings ==
  { [configured |-> c, run_ingest_every_seconds |-> p[1],
     run_classify_every_seconds |-> p[2]] :
      c \in BOOLEAN, p \in { <<30, 45>>, <<120, 0>> } }

\* How long an ingest phase can take, in seconds.
PhaseSeconds == {0, 40}

\* What a phase that makes its call can end with: the call returns, or an
\* Exception reaches the except clause.
PhaseOutcomes == {"returned", "raised"}

\* shutting_down = False; signal.signal(...); next_ingest = 0.0
InitSupervisor ==
  /\ run_settings \in RunSettings
  /\ wall = 0
  /\ sv_pc = "loop"
  /\ shutting_down = FALSE
  /\ next_ingest = 0
  /\ sv_now = 0
  /\ iteration = 0
  /\ ingest_outcome = "none"
  /\ classify_outcome = "none"
  /\ log = <<>>
  /\ photos = {}
  /\ observations = {}
  /\ classifications = {}
  /\ max_attempts = 1
  /\ ClassifyAtRest
  /\ feed = <<>>
  /\ clock = utcnow
  /\ settings = [per_page |-> 1, backfill_days |-> 0, overlap_hours |-> 0,
                 max_pages_per_run |-> 0]
  /\ IngestAtRest
  /\ OwnPhotos
  /\ StampsLeftOut
  /\ PolicyAtRest
  /\ ParseAtRest
  /\ ClientAtRest

\* _handle_signal: SIGTERM or SIGINT is delivered while run is looping.
HandleSignal ==
  /\ sv_pc # "exited"
  /\ shutting_down' = TRUE
  /\ UNCHANGED <<cvars, ivars, pvars, lvars, run_settings, wall, sv_pc, next_ingest,
                 sv_now, iteration, ingest_outcome, classify_outcome, log>>

\* Variant: while True.
SupIterate_IgnoresFlag ==
  /\ sv_pc = "loop"
  /\ iteration < MaxIterations
  /\ iteration' = iteration + 1
  /\ sv_now' = wall
  /\ sv_pc' = IF wall >= next_ingest THEN "ingest" ELSE "classify"
  /\ ingest_outcome' = "none"
  /\ classify_outcome' = "none"
  /\ UNCHANGED <<cvars, ivars, pvars, lvars, run_settings, wall, shutting_down,
                 next_ingest, log>>

\* while not shutting_down: now = time.time(); if now >= next_ingest:
SupIterate ==
  /\ sv_pc = "loop"
  /\ ~shutting_down
  /\ iteration < MaxIterations
  /\ iteration' = iteration + 1
  /\ sv_now' = wall
  /\ sv_pc' = IF wall >= next_ingest THEN "ingest" ELSE "classify"
  /\ ingest_outcome' = "none"
  /\ classify_outcome' = "none"
  /\ UNCHANGED <<cvars, ivars, pvars, lvars, run_settings, wall, shutting_down,
                 next_ingest, log>>

\* while not shutting_down (false): logger.info("shutdown requested; exiting")
SupExit ==
  /\ sv_pc = "loop"
  /\ shutting_down
  /\ sv_pc' = "exited"
  /\ UNCHANGED <<cvars, ivars, pvars, lvars, run_settings, wall, shutting_down,
                 next_ingest, sv_now, iteration, ingest_outcome, classify_outcome, log>>

\* Variant: the period is taken without its floor.
SupIngest_NoFloor ==
  /\ sv_pc = "ingest"
  /\ \E outcome \in PhaseOutcomes, took \in PhaseSeconds :
       /\ ingest_outcome' = outcome
       /\ wall' = wall + took
       /\ log' = IF outcome = "raised" THEN Append(log, "ingest error") ELSE log
  /\ next_ingest' = sv_now + run_settings.run_ingest_every_seconds
  /\ sv_pc' = "classify"
  /\ UNCHANGED <<cvars, ivars, pvars, lvars, run_settings, shutting_down, sv_now,
                 iteration, classify_outcome>>

\* Variant: the exception of the ingest phase is not caught.
SupIngest_Propagates ==
  /\ sv_pc = "ingest"
  /\ \E outcome \in PhaseOutcomes, took \in PhaseSeconds :
       /\ ingest_outcome' = outcome
       /\ wall' = wall + took
       /\ log' = log
       /\ sv_pc' = IF outcome = "raised" THEN "exited" ELSE "classify"
  /\ next_ingest' = sv_now + Max(60, run_settings.run_ingest_every_seconds)
  /\ UNCHANGED <<cvars, ivars, pvars, lvars, run_settings, shutting_down, sv_now,
                 iteration, classify_outcome>>

\* try: with connect(...) as conn: ingest_inat(...)
\* except Exception as e: logger.exception("ingest error: %s", e)
\* next_ingest = now + max(60, s.run_ingest_every_seconds)
SupIngest ==
  /\ sv_pc = "ingest"
  /\ \E outcome \in PhaseOutcomes, took \in PhaseSeconds :
       /\ ingest_outcome' = outcome
       /\ wall' = wall + took
       /\ log' = IF outcome = "raised" THEN Append(log, "ingest error") ELSE log
  /\ next_ingest' = sv_now + Max(60, run_settings.run_ingest_every_seconds)
  /\ sv_pc' = "classify"
  /\ UNCHANGED <<cvars, ivars, pvars, lvars, run_settings, shutting_down, sv_now,
                 iteration, classify_outcome>>

\* try: if s.openrouter_api_key and s.openrouter_model:
\*        with connect(...) as conn: classify_openrouter(..., max_items=5)
\* except Exception as e: logger.exception("classify error: %s", e)
SupClassify ==
  /\ sv_pc = "classify"
  /\ IF run_settings.configured
     THEN \E outcome \in PhaseOutcomes :
            /\ classify_outcome' = outcome
            /\ log' = IF outcome = "raised" THEN Append(log, "classify error") ELSE log
     ELSE /\ classify_outcome' = "skipped"
          /\ log' = log
  /\ sv_pc' = "sleep"
  /\ UNCHANGED <<cvars, ivars, pvars, lvars, run_settings, wall, shutting_down,
                 next_ingest, sv_now, iteration, ingest_outcome>>

\* time.sleep(max(1, s.run_classify_every_seconds))
SupSleep ==
  /\ sv_pc = "sleep"
  /\ wall' = wall + Max(1, run_settings.run_classify_every_seconds)
  /\ sv_pc' = "loop"
  /\ UNCHANGED <<cvars, ivars, pvars, lvars, run_settings, shutting_down, next_ingest,
                 sv_now, iteration, ingest_outcome, classify_outcome, log>>

NextSupervisor ==
  \/ HandleSignal
  \/ SupIterate
  \/ SupExit
  \/ SupIngest
  \/ SupClassify
  \/ SupSleep

SpecSupervisor == InitSupervisor /\ [][NextSupervisor]_vars

\* The supervisor's thread is never blocked for ever: every phase and every
\* sleep ends, and the loop test is evaluated when it is reached.
SpecSupervisorLive ==
  /\ InitSupervisor
  /\ [][NextSupervisor]_vars
  /\ WF_vars(SupIterate)
  /\ WF_vars(SupExit)
  /\ WF_vars(SupIngest)
  /\ WF_vars(SupClassify)
  /\ WF_vars(SupSleep)

\* ----------------------------------------------------------------- C28
\* The step on which a phase ends with an exception.
IngestRaises == sv_pc = "ingest" /\ ingest_outcome' = "raised"
ClassifyRaises == sv_pc = "classify" /\ classify_outcome' = "raised"

C28_Step ==
  /\ IngestRaises =>
       /\ log' = Append(log, "ingest error")
       /\ sv_pc' = "classify"
       /\ iteration' = iteration
  /\ ClassifyRaises =>
       /\ log' = Append(log, "classify error")
       /\ sv_pc' = "sleep"
  /\ (sv_pc = "sleep" /\ sv_pc' # "sleep") => sv_pc' = "loop"
  /\ (sv_pc = "loop" /\ ~shutting_down) => sv_pc' \in {"loop", "ingest", "classify"}
  /\ (sv_pc = "loop" /\ ~shutting_down /\ iteration < MaxIterations) =>
       ENABLED SupIterate
  /\ sv_pc' = "exited" => shutting_down

\* C28 -- supervisor resilience: an exception raised by the ingest phase or
\* by the classify phase of an iteration is logged and never ends the
\* supervisor loop; after an ingest exception the classify phase of the
\* same iteration still runs, and the loop continues with the next
\* iteration.
C28_Resilience == [][C28_Step]_vars /\ [](sv_pc = "exited" => shutting_down)

\* Both phases of the first iteration raised, and with no signal received
\* the second iteration has begun.
C28_Witness ==
  /\ log = <<"ingest error", "classify error">>
  /\ iteration = 2
  /\ ~shutting_down
  /\ sv_pc = "classify"

\* ----------------------------------------------------------------- C29
\* With the flag set: it stays set, no iteration begins, and the current
\* iteration goes through the phases it has left, in order, before the
\* loop test is reached again.
C29_Step ==
  /\ shutting_down => shutting_down'
  /\ shutting_down =>
       /\ iteration' = iteration
       /\ sv_pc = "ingest" => sv_pc' \in {"ingest", "classify"}
       /\ sv_pc = "classify" => sv_pc' \in {"classify", "sleep"}
       /\ sv_pc = "sleep" => sv_pc' \in {"sleep", "loop"}
       /\ sv_pc = "loop" => sv_pc' \in {"loop", "exited"}
       /\ (sv_pc = "ingest" /\ sv_pc' = "classify") => ingest_outcome' # "none"
       /\ (sv_pc = "classify" /\ sv_pc' = "sleep") => classify_outcome' # "none"
       /\ (sv_pc = "sleep" /\ sv_pc' = "loop") =>
            wall' = wall + Max(1, run_settings.run_classify_every_seconds)
  /\ sv_pc = "exited" => sv_pc' = "exited"

\* C29 -- supervisor shutdown: once a termination or interrupt signal has
\* set the shutdown flag, the phases of the current iteration run to
\* completion, no further iteration (no new ingest or classify phase) is
\* started, and the loop exits; the flag is never cleared.
C29_Shutdown ==
  /\ [][C29_Step]_vars
  /\ [](sv_pc = "exited" => (shutting_down /\ (iteration > 0 => classify_outcome # "none")))
  /\ (shutting_down ~> sv_pc = "exited")

\* The flag is set, the ingest phase of the first iteration has raised and
\* its classify phase is about to run.
C29_Witness ==
  /\ shutting_down
  /\ iteration = 1
  /\ sv_pc = "classify"
  /\ ingest_outcome = "raised"

\* ----------------------------------------------------------------- C30
IterationBegins == iteration' = iteration + 1
IngestPhaseEnds == sv_pc = "ingest" /\ sv_pc' # "ingest"
ClassifyPhaseEnds == sv_pc = "classify" /\ sv_pc' # "classify"

\* The two timers and the order of the phases.
C30_Order ==
  /\ iteration' # iteration => (IterationBegins /\ sv_pc = "loop")
  /\ IterationBegins =>
       /\ sv_now' = wall
       /\ sv_pc' \in {"ingest", "classify"}
       /\ sv_pc' = "ingest" <=> wall >= next_ingest
       /\ iteration = 0 => sv_pc' = "ingest"
       /\ ingest_outcome' = "none" /\ classify_outcome' = "none"
  /\ IngestPhaseEnds =>
       /\ ingest_outcome' \in PhaseOutcomes
       /\ next_ingest' = sv_now + (IF run_settings.run_ingest_every_seconds > 60
                                   THEN run_settings.run_ingest_every_seconds ELSE 60)
       /\ sv_pc' = "classify"
  /\ ~IngestPhaseEnds =>
       /\ next_ingest' = next_ingest
       /\ IterationBegins \/ ingest_outcome' = ingest_outcome
  /\ ClassifyPhaseEnds => sv_pc' = "sleep"
  /\ ~ClassifyPhaseEnds => (IterationBegins \/ classify_outcome' = classify_outcome)
  /\ (sv_pc # "loop" /\ sv_pc' = "loop") =>
       /\ sv_pc = "sleep"
       /\ wall' = wall + (IF run_settings.run_classify_every_seconds > 1
                          THEN run_settings.run_classify_every_seconds ELSE 1)

Whitespace == {" ", "\n"}

RECURSIVE lstrip(_)
lstrip(text) ==
  IF text # <<>> /\ Head(text) \in Whitespace THEN lstrip(Tail(text)) ELSE text

RECURSIVE rstrip(_)
rstrip(text) ==
  IF text # <<>> /\ text[Len(text)] \in Whitespace
  THEN rstrip(SubSeq(text, 1, Len(text) - 1))
  ELSE text

strip(text) == rstrip(lstrip(text))

startswith(text, prefix) ==
  Len(text) >= Len(prefix) /\ SubSeq(text, 1, Len(prefix)) = prefix

endswith(text, suffix) ==
  Len(text) >= Len(suffix)
    /\ SubSeq(text, Len(text) - Len(suffix) + 1, Len(text)) = suffix

find(text, ch) ==
  IF \E i \in DOMAIN text : text[i] = ch
  THEN CHOOSE i \in DOMAIN text : text[i] = ch /\ \A k \in 1..(i - 1) : text[k] # ch
  ELSE 0

\* The backquote character (U+0060), which a string of this module cannot
\* hold, is written as the token "bq".
Backquote == "bq"

Fence == <<Backquote, Backquote, Backquote>>

\* stripped = text.strip(); if it starts with a fence, drop its first line
\* (when there is a second one) and a fence at its end.
_strip_code_fences(text) ==
  LET stripped == strip(text)
      newline == find(stripped, "\n")
      body == IF startswith(stripped, Fence) /\ newline > 0
              THEN SubSeq(stripped, newline + 1, Len(stripped))
              ELSE stripped
      cut == IF startswith(stripped, Fence) /\ endswith(rstrip(body), Fence)
             THEN rstrip(SubSeq(rstrip(body), 1, Len(rstrip(body)) - Len(Fence)))
             ELSE body
  IN  strip(cut)

\* Variant: a backslash inside a string literal is an ordinary character.
RECURSIVE BalanceFrom_NoEscape(_, _, _, _, _)
BalanceFrom_NoEscape(text, i, depth, in_string, escape) ==
  IF i > Len(text) THEN 0
  ELSE LET ch == text[i] IN
       IF in_string
       THEN IF ch = "\"" THEN BalanceFrom_NoEscape(text, i + 1, depth, FALSE, FALSE)
            ELSE BalanceFrom_NoEscape(text, i + 1, depth, TRUE, FALSE)
       ELSE IF ch = "\"" THEN BalanceFrom_NoEscape(text, i + 1, depth, TRUE, escape)
       ELSE IF ch = "{" THEN BalanceFrom_NoEscape(text, i + 1, depth + 1, FALSE, escape)
       ELSE IF ch = "}"
            THEN IF depth - 1 = 0 THEN i
                 ELSE BalanceFrom_NoEscape(text, i + 1, depth - 1, FALSE, escape)
       ELSE BalanceFrom_NoEscape(text, i + 1, depth, FALSE, escape)

\* The for loop of _extract_first_json_object from position i on: the
\* position of the brace that brings depth back to 0, or 0 when the text
\* ends first.
RECURSIVE BalanceFrom(_, _, _, _, _)
BalanceFrom(text, i, depth, in_string, escape) ==
  IF i > Len(text) THEN 0
  ELSE LET ch == text[i] IN
       IF in_string
       THEN IF escape THEN BalanceFrom(text, i + 1, depth, TRUE, FALSE)
            ELSE IF ch = "\\" THEN BalanceFrom(text, i + 1, depth, TRUE, TRUE)
            ELSE IF ch = "\"" THEN BalanceFrom(text, i + 1, depth, FALSE, FALSE)
            ELSE BalanceFrom(text, i + 1, depth, TRUE, FALSE)
       ELSE IF ch = "\"" THEN BalanceFrom(text, i + 1, depth, TRUE, escape)
       ELSE IF ch = "{" THEN BalanceFrom(text, i + 1, depth + 1, FALSE, escape)
       ELSE IF ch = "}"
            THEN IF depth - 1 = 0 THEN i
                 ELSE BalanceFrom(text, i + 1, depth - 1, FALSE, escape)
       ELSE BalanceFrom(text, i + 1, depth, FALSE, escape)

\* text = _strip_code_fences(text); start = text.find("{"); the balanced
\* substring from start, or JSONDecodeError (Null).
_extract_first_json_object(text) ==
  LET t == _strip_code_fences(text)
      start == find(t, "{")
      end == IF start = 0 THEN 0 ELSE BalanceFrom(t, start, 0, FALSE, FALSE)
  IN  IF start = 0 \/ end = 0 THEN Null ELSE Some(SubSeq(t, start, end))

\* json.loads: a decoder of JSON text.  Each operator below takes the
\* position where a construct begins and gives the position just after it,
\* or 0 where the text is not JSON.
Digits == {"1", "2"}

Escapable == {"\"", "\\", "/", "b", "f", "n", "r", "t"}

Literals == { <<"n", "u", "l", "l">>, <<"t", "r", "u", "e">>,
              <<"f", "a", "l", "s", "e">> }

RECURSIVE skip_ws(_, _)
skip_ws(text, i) ==
  IF i <= Len(text) /\ text[i] \in Whitespace THEN skip_ws(text, i + 1) ELSE i

\* j is a position inside a string literal.
RECURSIVE StringEnd(_, _)
StringEnd(text, j) ==
  IF j > Len(text) THEN 0
  ELSE IF text[j] = "\"" THEN j + 1
  ELSE IF text[j] = "\n" THEN 0
  ELSE IF text[j] = "\\"
       THEN IF j + 1 <= Len(text) /\ text[j + 1] \in Escapable
            THEN StringEnd(text, j + 2)
            ELSE 0
  ELSE StringEnd(text, j + 1)

RECURSIVE NumberEnd(_, _)
NumberEnd(text, j) ==
  IF j <= Len(text) /\ text[j] \in Digits THEN NumberEnd(text, j + 1) ELSE j

RECURSIVE ValueEnd(_, _)
RECURSIVE MembersEnd(_, _)
RECURSIVE ElementsEnd(_, _)

ValueEnd(text, from) ==
  LET i == skip_ws(text, from) IN
  IF i > Len(text) THEN 0
  ELSE IF text[i] = "{"
       THEN LET k == skip_ws(text, i + 1) IN
            IF k <= Len(text) /\ text[k] = "}" THEN k + 1 ELSE MembersEnd(text, k)
  ELSE IF text[i] = "["
       THEN LET k == skip_ws(text, i + 1) IN
            IF k <= Len(text) /\ text[k] = "]" THEN k + 1 ELSE ElementsEnd(text, k)
  ELSE IF text[i] = "\"" THEN StringEnd(text, i + 1)
  ELSE IF text[i] \in Digits THEN NumberEnd(text, i + 1)
  ELSE IF \E w \in Literals : startswith(SubSeq(text, i, Len(text)), w)
       THEN i + Len(CHOOSE w \in Literals : startswith(SubSeq(text, i, Len(text)), w))
  ELSE 0

\* k is where a "key": value member must begin.
MembersEnd(text, k) ==
  IF k > Len(text) \/ text[k] # "\"" THEN 0
  ELSE LET p == StringEnd(text, k + 1)
           c == skip_ws(text, p)
           q == ValueEnd(text, c + 1)
           r == skip_ws(text, q)
       IN  IF p = 0 \/ c > Len(text) \/ text[c] # ":" THEN 0
           ELSE IF q = 0 \/ r > Len(text) THEN 0
           ELSE IF text[r] = "," THEN MembersEnd(text, skip_ws(text, r + 1))
           ELSE IF text[r] = "}" THEN r + 1
           ELSE 0

\* k is where an element of an array must begin.
ElementsEnd(text, k) ==
  LET q == ValueEnd(text, k)
      r == skip_ws(text, q)
  IN  IF q = 0 \/ r > Len(text) THEN 0
      ELSE IF text[r] = "," THEN ElementsEnd(text, r + 1)
      ELSE IF text[r] = "]" THEN r + 1
      ELSE 0

\* The Python type of the decoded value, from the character it begins with.
TypeOfValue(text) ==
  LET ch == Head(strip(text)) IN
  IF ch = "{" THEN "dict"
  ELSE IF ch = "[" THEN "list"
  ELSE IF ch = "\"" THEN "str"
  ELSE IF ch \in Digits THEN "int"
  ELSE "literal"

\* json.loads(text): the value (its type, and its text without the
\* whitespace around it), or Null for JSONDecodeError.
json_loads(text) ==
  LET end == ValueEnd(text, 1) IN
  IF end = 0 \/ skip_ws(text, end) # Len(text) + 1 THEN Null
  ELSE Some([type |-> TypeOfValue(text), text |-> strip(text)])

\* _parse_model_json on a content string, character by character: the
\* parsed object, or JSONDecodeError.
_parse_model_json_str(content) ==
  LET parsed == json_loads(content)
      candidate == _extract_first_json_object(content)
      parsed2 == IF candidate = Null THEN Null ELSE json_loads(Val(candidate))
      failed_ == [output |-> Null, raised |-> Some(Exc("JSONDecodeError", 0, Null))]
  IN  IF parsed # Null /\ Val(parsed).type = "dict"
      THEN [output |-> parsed, raised |-> Null]
      ELSE IF candidate = Null \/ parsed2 = Null THEN failed_
      ELSE IF Val(parsed2).type # "dict" THEN failed_
      ELSE [output |-> parsed2, raised |-> Null]

\* The texts of JSON objects a model may answer with: a plain one, one with
\* a closing brace inside a string, one with an escaped quote and a brace
\* inside a string, a nested one, the empty one.
ValidObjects ==
  { <<"{", "\"", "a", "\"", ":", "1", "}">>,
    <<"{", "\"", "a", "\"", ":", "\"", "}", "\"", "}">>,
    <<"{", "\"", "a", "\"", ":", "\"", "\\", "\"", "}", "\"", "}">>,
    <<"{", "\"", "a", "\"", ":", "{", "}", "}">>,
    <<"{", "}">> }

\* The texts of JSON values that are not objects: an array holding an
\* object, an array of a number, a string, a string holding braces, a number.
NonObjects ==
  { <<"[", "{", "\"", "a", "\"", ":", "1", "}", "]">>,
    <<"[", "1", "]">>,
    <<"\"", "a", "\"">>,
    <<"\"", "{", "}", "\"">>,
    <<"1">> }

\* Prose around the answer: none, a word, and words with braces or a quote.
Prose ==
  { <<>>, <<"o", "k">>, <<"{">>, <<"}">>, <<"{", "}">>, <<"\"">> }

\* <prose>, newline, the ```json line, the object, the closing ``` line, <prose>
Fenced(before, valid, after) ==
  before \o <<"\n">> \o Fence \o <<"j", "s", "o", "n", "\n">> \o valid
         \o <<"\n">> \o Fence \o <<"\n">> \o after

\* The content strings examined: fenced objects in prose, and JSON values
\* and objects with prose put directly around them.
ModelContents ==
  { Fenced(b, v, a) : b \in Prose, v \in ValidObjects, a \in Prose }
    \cup { b \o v \o a : b \in Prose, v \in ValidObjects \cup NonObjects, a \in Prose }

\* The content a worker outcome of the classify run stands for.
ContentOf(parsed) == IF parsed.raised = Null THEN "json_object" ELSE "not_json"

\* The item whose response is being parsed.
ParsedItem ==
  [photo_id |-> 1, observation_id |-> 1, image_url |-> "photos/1/large.jpg",
   attempt_count |-> 0]

\* A content string has come back for the reserved photo 1.
InitParse ==
  /\ parse_call \in { Some([content |-> c, parsed |-> Null]) : c \in ModelContents }
  /\ map_call = Null
  /\ task_outcome = <<>>
  /\ OwnPhotos
  /\ photos = { PhotoRow(1) }
  /\ observations = { _extract_observation_fields(RemoteObservation(1, utcnow)) }
  /\ classifications = _upsert_pending({}, ParsedItem, model_provider, model,
                                       prompt_version)
  /\ max_attempts = 1
  /\ ClassifyAtRest
  /\ feed = <<>>
  /\ clock = utcnow
  /\ settings = [per_page |-> 1, backfill_days |-> 0, overlap_hours |-> 0,
                 max_pages_per_run |-> 0]
  /\ IngestAtRest
  /\ StampsLeftOut
  /\ SupervisorAtRest
  /\ PolicyAtRest
  /\ ClientAtRest

\* parsed = _parse_model_json(content)
ParseContent ==
  /\ parse_call # Null
  /\ Val(parse_call).parsed = Null
  /\ parse_call' = Some([Val(parse_call) EXCEPT
                           !.parsed = Some(_parse_model_json_str(Val(parse_call).content))])
  /\ UNCHANGED <<cvars, ivars, lvars, svars, policy_call, map_call, task_outcome>>

\* _mark_success(...) or the except clause, for the parsed content
MarkParsed ==
  /\ parse_call # Null
  /\ Val(parse_call).parsed # Null
  /\ \E c \in classifications : c.status = "pending"
  /\ classifications' =
       ProcessOutcome(classifications, ParsedItem,
                      [raised |-> Null,
                       content |-> Some(ContentOf(Val(Val(parse_call).parsed)))],
                      max_attempts)
  /\ UNCHANGED <<photos, observations, max_attempts, cl_pc, items, limit,
                 max_workers, futures, succeeded, failed, result, commits>>
  /\ UNCHANGED <<ivars, lvars, svars, pvars>>

NextParse == ParseContent \/ MarkParsed

SpecParse == InitParse /\ [][NextParse]_vars

\* ----------------------------------------------------------------- C31
Parsed == parse_call # Null /\ Val(parse_call).parsed # Null

\* The row of the parsed item is no longer pending.
Marked == \A c \in classifications : c.status # "pending"

\* What the claim promises for the content <before> fence valid fence <after>.
Recovered(before, valid, after) ==
  (Parsed /\ Val(parse_call).content = Fenced(before, valid, after)) =>
    /\ _extract_first_json_object(Val(parse_call).content) = Some(valid)
    /\ Val(Val(parse_call).parsed).raised = Null
    /\ Val(Val(parse_call).parsed).output = Some([type |-> "dict", text |-> valid])
    /\ Marked => \A c \in classifications : c.status = "succeeded"

\* C31 -- JSON recovery: for every content string of the form <prose>,
\* newline, a ```json fence line, a valid JSON object VALID, a closing ```
\* fence line, <prose> (for any prose text before and after), the extractor
\* returns exactly VALID and the parse yields the equivalent object, so the
\* item is marked succeeded.
C31_JsonRecovery ==
  \A b \in Prose, v \in ValidObjects, a \in Prose : Recovered(b, v, a)

\* C31 as amended -- the same for any prose after the fenced block and any
\* prose before it that holds no opening brace.
C31_JsonRecoveryAfterBraceFreeProse ==
  \A b \in Prose, v \in ValidObjects, a \in Prose :
    find(b, "{") = 0 => Recovered(b, v, a)

\* The object with an escaped quote and a brace inside a string, fenced
\* between a word and a stray closing brace, was recovered and the item
\* marked succeeded.
C31_Witness ==
  /\ Parsed
  /\ Val(parse_call).content =
       Fenced(<<"o", "k">>,
              <<"{", "\"", "a", "\"", ":", "\"", "\\", "\"", "}", "\"", "}">>,
              <<"}">>)
  /\ Val(Val(parse_call).parsed).raised = Null
  /\ \A c \in classifications : c.status = "succeeded"

\* ------------------------------------------------------ photo URL texts
\* pat in text
contains(text, pat) ==
  \E i \in 1..(Len(text) - Len(pat) + 1) : SubSeq(text, i, i + Len(pat) - 1) = pat

\* text.replace(old, new): every occurrence, left to right, not overlapping
RECURSIVE replace(_, _, _)
replace(text, old, new) ==
  IF Len(text) < Len(old) THEN text
  ELSE IF SubSeq(text, 1, Len(old)) = old
       THEN new \o replace(SubSeq(text, Len(old) + 1, Len(text)), old, new)
       ELSE <<Head(text)>> \o replace(Tail(text), old, new)

SquareDot == <<"s", "q", "u", "a", "r", "e", ".">>
LargeDot == <<"l", "a", "r", "g", "e", ".">>
Jpg == <<"j", "p", "g">>
PhotosDir == <<"/", "p", "h", "o", "t", "o", "s", "/">>

\* "square." in square
HasSquare(square) == contains(square, SquareDot)

\* best_photo_urls on a photo whose URLs are texts (or absent).
best_photo_urls_str(photo) ==
  LET square == photo.url
      large == IF square # Null /\ HasSquare(Val(square))
               THEN Some(replace(Val(square), <<"/">> \o SquareDot, <<"/">> \o LargeDot))
               ELSE Null
      original_guess ==
        IF square = Null THEN Null
        ELSE Some(replace(Val(square), <<"/">> \o SquareDot \o Jpg,
                          <<"/", "o", "r", "i", "g", "i", "n", "a", "l", ".", "j", "p", "e", "g">>))
      original ==
        IF photo.original_url = Null /\ square # Null
           /\ contains(Val(square), PhotosDir) /\ original_guess # square
        THEN original_guess
        ELSE photo.original_url
  IN  [square |-> square, large |-> large, original |-> original]

\* Thumbnail URLs: a host, perhaps a directory, and a file name, where the
\* host or the directory may itself hold "square." and the file may be
\* square.jpg, a name that ends in square. after other letters, or another
\* size.
ThumbnailUrls ==
  { host \o dir \o file \o ext :
      host \in { <<"h">>, SquareDot \o <<"h">> },
      dir \in { <<>>, PhotosDir \o <<"1">>, <<"/">> \o SquareDot \o <<"d">> },
      file \in { <<"/">> \o SquareDot, <<"/", "x">> \o SquareDot,
                 <<"/", "m", "e", "d", "i", "u", "m", ".">> },
      ext \in { Jpg, <<"j", "p", "e", "g">> } }

PhotoJsons ==
  { [url |-> u, original_url |-> o] :
      u \in {Null} \cup { Some(t) : t \in ThumbnailUrls },
      o \in { Null, Some(<<"h", "/", "o", ".", "j", "p", "g">>) } }

\* A photo JSON is about to be mapped.
InitUrls ==
  /\ map_call \in { Some([photo |-> ph, urls |-> Null]) : ph \in PhotoJsons }
  /\ parse_call = Null
  /\ task_outcome = <<>>
  /\ OwnPhotos
  /\ photos = {}
  /\ observations = {}
  /\ classifications = {}
  /\ max_attempts = 1
  /\ ClassifyAtRest
  /\ feed = <<>>
  /\ clock = utcnow
  /\ settings = [per_page |-> 1, backfill_days |-> 0, overlap_hours |-> 0,
                 max_pages_per_run |-> 0]
  /\ IngestAtRest
  /\ StampsLeftOut
  /\ SupervisorAtRest
  /\ PolicyAtRest
  /\ ClientAtRest

\* square, large, original = best_photo_urls(photo)
UrlsCall ==
  /\ map_call # Null
  /\ Val(map_call).urls = Null
  /\ map_call' = Some([Val(map_call) EXCEPT
                          !.urls = Some(best_photo_urls_str(Val(map_call).photo))])
  /\ UNCHANGED <<cvars, ivars, lvars, svars, policy_call, parse_call, task_outcome>>

NextUrls == UrlsCall

SpecUrls == InitUrls /\ [][NextUrls]_vars

\* ----------------------------------------------------------------- C32
\* text with the occurrence of "square." at position i replaced by "large."
LargeAt(text, i) ==
  SubSeq(text, 1, i - 1) \o LargeDot \o SubSeq(text, i + Len(SquareDot), Len(text))

\* C32 -- photo URL derivation: for every thumbnail URL, the derived large
\* URL is the thumbnail URL with only its "square." path segment replaced
\* by "large." (every other character unchanged), and when the thumbnail
\* URL does not contain that segment, or is absent, the large URL is null.
C32_LargeUrl ==
  (map_call # Null /\ Val(map_call).urls # Null) =>
    LET square == Val(map_call).photo.url
        large == Val(Val(map_call).urls).large
    IN  IF square = Null \/ ~contains(Val(square), SquareDot)
        THEN large = Null
        ELSE /\ large # Null
             /\ \E i \in 1..(Len(Val(square)) - Len(SquareDot) + 1) :
                  /\ SubSeq(Val(square), i, i + Len(SquareDot) - 1) = SquareDot
                  /\ Val(large) = LargeAt(Val(square), i)

\* ------------------------------------------------------- location texts
\* The value of a run of decimal digits.
RECURSIVE DigitsValue(_)
DigitsValue(ds) ==
  IF ds = <<>> THEN 0
  ELSE 10 * DigitsValue(SubSeq(ds, 1, Len(ds) - 1))
       + (IF ds[Len(ds)] = "1" THEN 1 ELSE 2)

IsDigits(ds) == \A i \in 1..Len(ds) : ds[i] \in Digits

\* float(text): Null for ValueError, else the number as num / 10^scale.
\* Accepted here: surrounding whitespace, a sign, digits with an optional
\* fraction (at least one digit on one side of the point).
float(text) ==
  LET s == strip(text)
      neg == s # <<>> /\ Head(s) = "-"
      body == IF neg THEN Tail(s) ELSE s
      dot == find(body, ".")
      whole == IF dot = 0 THEN body ELSE SubSeq(body, 1, dot - 1)
      frac == IF dot = 0 THEN <<>> ELSE SubSeq(body, dot + 1, Len(body))
  IN  IF IsDigits(whole) /\ IsDigits(frac) /\ Len(whole) + Len(frac) > 0
      THEN Some([num |-> (IF neg THEN -1 ELSE 1)
                           * DigitsValue(whole \o frac),
                 scale |-> Len(frac)])
      ELSE Null

\* lat_s, lon_s = location.split(",", 1); lat = float(lat_s); lon =
\* float(lon_s), where a ValueError leaves what was not yet assigned at None.
LocationOf(location) ==
  LET comma == find(location, ",")
      lat == float(SubSeq(location, 1, comma - 1))
      lon == float(SubSeq(location, comma + 1, Len(location)))
  IN  IF lat = Null
      THEN [latitude |-> Null, longitude |-> Null]
      ELSE [latitude |-> lat, longitude |-> lon]

\* The latitude and longitude of _extract_observation_fields; the location
\* of the observation JSON is a text, or absent.
_extract_observation_fields_location(obs) ==
  IF obs.location # Null /\ find(Val(obs.location), ",") # 0
  THEN LocationOf(Val(obs.location))
  ELSE [latitude |-> Null, longitude |-> Null]

LocationParts ==
  { <<"1">>, <<"-", "2">>, <<"1", ".", "2">>, <<" ", "1", " ">>, <<".", "2">>,
    <<"a">>, <<>>, <<".">>, <<"1", ",", "2">> }

Locations ==
  {Null} \cup { Some(a) : a \in LocationParts }
         \cup { Some(a \o <<",">> \o b) : a \in LocationParts, b \in LocationParts }

\* An observation JSON is about to be mapped.
InitLocation ==
  /\ map_call \in { Some([obs |-> [location |-> l], fields |-> Null]) : l \in Locations }
  /\ parse_call = Null
  /\ task_outcome = <<>>
  /\ OwnPhotos
  /\ photos = {}
  /\ observations = {}
  /\ classifications = {}
  /\ max_attempts = 1
  /\ ClassifyAtRest
  /\ feed = <<>>
  /\ clock = utcnow
  /\ settings = [per_page |-> 1, backfill_days |-> 0, overlap_hours |-> 0,
                 max_pages_per_run |-> 0]
  /\ IngestAtRest
  /\ StampsLeftOut
  /\ SupervisorAtRest
  /\ PolicyAtRest
  /\ ClientAtRest

\* fields = _extract_observation_fields(obs)
LocationCall ==
  /\ map_call # Null
  /\ Val(map_call).fields = Null
  /\ map_call' = Some([Val(map_call) EXCEPT
                         !.fields = Some(_extract_observation_fields_location(Val(map_call).obs))])
  /\ UNCHANGED <<cvars, ivars, lvars, svars, policy_call, parse_call, task_outcome>>

NextLocation == LocationCall

SpecLocation == InitLocation /\ [][NextLocation]_vars

\* ----------------------------------------------------------------- C33
\* C33 -- location mapping: for every observation JSON, the mapped latitude
\* and longitude are either both non-null or both null, including when the
\* location string contains a comma but only one of its two parts parses
\* as a number.
C33_LatLonTogether ==
  (map_call # Null /\ Val(map_call).fields # Null) =>
    LET fields == Val(Val(map_call).fields)
    IN  (fields.latitude = Null) <=> (fields.longitude = Null)

\* ================================================================== stats
\* photos p LEFT JOIN classifications c ON c.photo_id = p.photo_id
\*   AND c.model_provider = 'openrouter' AND c.model = %s AND c.prompt_version = %s
StatsJoined(ph, cls, m, pv) ==
  UNION { LET matched == { c \in cls : JoinMatch(c, p, "openrouter", m, pv) }
              right == IF matched = {} THEN {NullRow}
                       ELSE { JoinRow(c) : c \in matched }
          IN  { [p |-> p, c |-> r] : r \in right }
        : p \in ph }

\* Variant: failed rows count whether or not their retry_after has passed.
StatsWhere_AnyFailed(j) ==
  /\ COALESCE(j.p.url_large, j.p.url_square, j.p.url_original) # Null
  /\ \/ j.c.classification_id = Null
     \/ j.c.status = Some("failed")

\* WHERE COALESCE(urls) IS NOT NULL AND (c.classification_id IS NULL OR
\*   (c.status = 'failed' AND (c.retry_after IS NULL OR c.retry_after <= now())))
StatsWhere(j) ==
  /\ COALESCE(j.p.url_large, j.p.url_square, j.p.url_original) # Null
  /\ \/ j.c.classification_id = Null
     \/ /\ j.c.status = Some("failed")
        /\ \/ j.c.retry_after = Null
           \/ Val(j.c.retry_after) <= utcnow

\* backlog of stats: SELECT count(*) ... for (s.openrouter_model or "", s.prompt_version)
stats_backlog(ph, cls, m, pv) ==
  Cardinality({ j \in StatsJoined(ph, cls, m, pv) : StatsWhere(j) })

\* ----------------------------------------------------------------- C34
\* A limit no selection reaches: one joined row per photo and classification.
Unbounded == Cardinality(photos) * (Cardinality(classifications) + 1)

\* The tuples stats and classify can be configured with.
ConfigurableKeys == {[model |-> model, prompt_version |-> prompt_version]} \cup ForeignKeys

\* C34 -- stats backlog equivalence: in every reachable database state, the
\* backlog count reported by stats equals the number of photos that work
\* selection would return with an unbounded limit for the same model and
\* prompt_version evaluated at the same instant.
C34_BacklogIsSelection ==
  \A k \in ConfigurableKeys :
    stats_backlog(photos, classifications, k.model, k.prompt_version)
      = Len(_select_next_work(photos, observations, classifications,
                              model_provider, k.model, k.prompt_version, Unbounded))

\* A failed row that is not yet due is left out, a photo without a row is
\* counted, while a classify run is under way.
C34_Witness ==
  /\ cl_pc = "pool"
  /\ \E c \in classifications :
       /\ c.model = model /\ c.prompt_version = prompt_version
       /\ c.status = "failed" /\ c.retry_after # Null /\ Val(c.retry_after) > utcnow
  /\ stats_backlog(photos, classifications, model, prompt_version) >= 1
  /\ stats_backlog(photos, classifications, model, prompt_version) < Cardinality(photos)

\* ----------------------------------------------------------------- C35
\* The rows of items[i] for the configured tuple.
ItemRows(cls, i) == ConfiguredRows(cls, items[i].photo_id)

\* Every item has exactly one row, pending and without an error.
AllReserved(cls) ==
  \A i \in DOMAIN items :
    /\ Cardinality(ItemRows(cls, i)) = 1
    /\ \A c \in ItemRows(cls, i) : c.status = "pending" /\ c.error = Null

\* The step in which the controller reserves its batch.
ReservationStep == cl_pc = "selected" /\ cl_pc' = "reserved"

\* The step in which the first (and every) task is submitted.
SubmissionStep == futures = <<>> /\ futures' # <<>>

\* C35 -- reservation ordering: in a classify run every selected item is
\* reserved in ascending photo_id order (rows inserted by the reservation
\* get their ids in that order), all reservations are committed in a
\* single commit, and that commit happens before the first gateway task is
\* submitted; a reservation that conflicts with an existing row sets its
\* status to pending and clears its error.
C35_ReservationOrdering ==
  [][ /\ ReservationStep =>
           /\ \A i, k \in DOMAIN items : i < k => items[i].photo_id < items[k].photo_id
           /\ \A i, k \in DOMAIN items :
                \A c \in ItemRows(classifications', i) \ classifications :
                  \A e \in ItemRows(classifications', k) \ classifications :
                    i < k => c.classification_id < e.classification_id
           /\ AllReserved(classifications')
           /\ commits = 0 /\ commits' = 1
           /\ futures' = <<>>
      /\ SubmissionStep =>
           /\ cl_pc = "reserved"
           /\ commits = 1 /\ commits' = 1
           /\ AllReserved(classifications)
           /\ classifications' = classifications
    ]_vars

\* A batch of two has been reserved and committed, nothing is submitted yet;
\* its first item conflicted with a failed row, its second got a new row
\* with a larger id.
C35_Witness ==
  /\ cl_pc = "reserved"
  /\ Len(items) = 2
  /\ commits = 1
  /\ futures = <<>>
  /\ items[1].attempt_count >= 1
  /\ items[2].attempt_count = 0
  /\ AllReserved(classifications)
  /\ \A c \in ItemRows(classifications, 1) :
       \A e \in ItemRows(classifications, 2) :
         c.classification_id < e.classification_id

\* ====================================================== fixed task outcomes
\* A classify call whose gateway tasks have their outcomes fixed per photo,
\* while the order in which the tasks start and complete stays open.
InitOrder ==
  /\ OwnPhotos
  /\ photos = { PhotoRow(p) : p \in {0} \cup Photos }
  /\ observations =
       { _extract_observation_fields(RemoteObservation(p, utcnow)) : p \in {0} \cup Photos }
  /\ classifications =
       { ForeignRow(1, 1, [model |-> "m1", prompt_version |-> "v2"]),
         ForeignRow(2, NumPhotos, [model |-> "m2", prompt_version |-> "v1"]) }
  /\ max_attempts \in 1..MaxAttemptsLimit
  /\ ClassifyAtRest
  /\ feed = <<>>
  /\ clock = utcnow
  /\ settings = [per_page |-> 1, backfill_days |-> 0, overlap_hours |-> 0,
                 max_pages_per_run |-> 0]
  /\ IngestAtRest
  /\ PolicyAtRest
  /\ parse_call = Null
  /\ map_call = Null
  /\ task_outcome \in [Photos -> WorkerOutcomes]
  /\ ClientAtRest
  /\ StampsLeftOut
  /\ SupervisorAtRest

\* The body of the result loop for a completed future whose result is the
\* outcome its task was fixed to.
ClassifyProcessFixed ==
  /\ ClassifyProcessResult
  /\ \E i \in DOMAIN futures :
       /\ futures[i] = "done"
       /\ futures'[i] = "processed"
       /\ LET outcome == task_outcome[items[i].photo_id]
              ok == TryBlock(outcome).raised = Null
          IN  /\ classifications' = ProcessOutcome(classifications, items[i],
                                                   outcome, max_attempts)
              /\ succeeded' = IF ok THEN succeeded + 1 ELSE succeeded
              /\ failed' = IF ok THEN failed ELSE failed + 1

NextOrder ==
  \/ ClassifySelect
  \/ ClassifyReturnEmpty
  \/ ClassifyReserve
  \/ ClassifySubmit
  \/ WorkerStart
  \/ WorkerFinish
  \/ ClassifyProcessFixed
  \/ ClassifyReturn
  \/ ClassifyExit
  \/ Tick

SpecOrder == InitOrder /\ [][NextOrder]_vars

\* ----------------------------------------------------------------- C36
\* What the claim compares of a row.
RowResult(c) == [status |-> c.status, attempt_count |-> c.attempt_count,
                 output |-> c.output, error |-> c.error]

\* The row of an item as its reservation leaves it, and what the result
\* loop makes of it given the outcome of the item's task: a function of the
\* item and its outcome alone.
ExpectedResult(item) ==
  LET reserved == [NewRow({}, item, model_provider, model, prompt_version)
                     EXCEPT !.attempt_count = item.attempt_count]
      after == ProcessOutcome({reserved}, item, task_outcome[item.photo_id], max_attempts)
  IN  { RowResult(c) : c \in after }

Successes == { i \in DOMAIN items :
                 TryBlock(task_outcome[items[i].photo_id]).raised = Null }

\* C36 -- completion-order independence: for a fixed batch and fixed
\* per-task outcomes, the status, attempt_count, output and error of every
\* classification row after classify returns, and the returned counts, are
\* the same for every order in which the tasks complete: they are what the
\* batch and the outcomes alone determine.
C36_OrderIndependence ==
  (cl_pc = "returned" /\ items # <<>>) =>
    /\ \A i \in DOMAIN items :
         { RowResult(c) : c \in ItemRows(classifications, i) } = ExpectedResult(items[i])
    /\ result = Some([succeeded |-> Cardinality(Successes),
                      failed |-> Len(items) - Cardinality(Successes)])

\* A batch of two returned from a pool of two threads: a retried item and a
\* new one, one task succeeded and one failed.
C36_Witness ==
  /\ cl_pc = "returned"
  /\ Len(items) = 2
  /\ max_workers = 2
  /\ items[1].attempt_count = 1
  /\ Cardinality(Successes) = 1

\* ----------------------------------------------------------------- C37
\* The content is JSON text whose value is not an object.
NonObjectContent(content) ==
  /\ json_loads(content) # Null
  /\ Val(json_loads(content)).type # "dict"

\* C37 -- object-only output: an item is marked succeeded only if the model
\* content, after the tolerant parse, is a JSON object; content whose JSON
\* value is not an object (an array, a string or a number, including an
\* array that contains an object) makes the item fail, and braces inside
\* JSON string literals (with escaped quotes honoured) are ignored when
\* balancing braces.
C37_ObjectOnly ==
  Parsed =>
    LET content == Val(parse_call).content
        parsed == Val(Val(parse_call).parsed)
    IN  /\ parsed.raised = Null => Val(parsed.output).type = "dict"
        /\ NonObjectContent(content) =>
             /\ parsed.raised # Null
             /\ Marked => \A c \in classifications :
                            c.status \in {"failed", "permanent_failed"}
        /\ \A v \in ValidObjects :
             content = Fenced(<<"o", "k">>, v, <<>>) =>
               _extract_first_json_object(content) = Some(v)

\* ======================================================= runs and restarts
\* Two photos wait for their first attempt; a second failed attempt is final.
InitRestart ==
  /\ OwnPhotos
  /\ photos = { PhotoRow(1), PhotoRow(2) }
  /\ observations =
       { _extract_observation_fields(RemoteObservation(p, utcnow)) : p \in {1, 2} }
  /\ classifications = {}
  /\ max_attempts = 2
  /\ ClassifyAtRest
  /\ feed = <<>>
  /\ clock = utcnow
  /\ settings = [per_page |-> 1, backfill_days |-> 0, overlap_hours |-> 0,
                 max_pages_per_run |-> 0]
  /\ IngestAtRest
  /\ PolicyAtRest
  /\ ParseAtRest
  /\ ClientAtRest
  /\ StampsLeftOut
  /\ SupervisorAtRest

\* Classify runs are repeated for ever and every step of a run is taken in
\* time; the process may be killed during a run, which happens finitely
\* often, and is started again.
SpecRestart ==
  /\ InitRestart
  /\ [][NextClassify]_vars
  /\ SF_vars(ClassifySelect /\ limit' >= 1)
  /\ WF_vars(ClassifyReturnEmpty)
  /\ WF_vars(ClassifyReserve)
  /\ WF_vars(ClassifySubmit)
  /\ WF_vars(WorkerStart)
  /\ WF_vars(WorkerFinish)
  /\ WF_vars(ClassifyProcessResult)
  /\ WF_vars(ClassifyReturn)
  /\ WF_vars(ClassifyExit)
  /\ WF_vars(Tick)
  /\ <>[][~ClassifyCrash]_vars

\* ----------------------------------------------------------------- C38
PendingRow(p) ==
  \E c \in ConfiguredRows(classifications, p) : c.status = "pending"

\* C38 -- resumability of reservations: every classification row that
\* enters pending eventually leaves pending (to succeeded, failed or
\* permanent_failed) under repeated classify runs, including when the
\* process is stopped or crashes after the reservation commit and before
\* the row's result is committed, and then restarts.
C38_PendingLeaves ==
  \A p \in {1, 2} : PendingRow(p) ~> ~PendingRow(p)

\* ----------------------------------------------------------------- C39
\* The step in which the result of items[i] is written.
WriteStep(i) == futures[i] = "done" /\ futures'[i] = "processed"

\* When a result is written the row still holds the attempt_count that the
\* selection read, so the attempt number of the controller is the one the
\* UPDATE computes; a failure the controller sends to _mark_failed is stored
\* as failed, never turned into permanent_failed by the CASE.
C39_WriteAgrees ==
  \A i \in DOMAIN futures :
    (cl_pc = "pool" /\ i \in DOMAIN futures' /\ WriteStep(i)) =>
      LET attempt == items[i].attempt_count + 1
      IN  /\ ItemRows(classifications, i) # {}
          /\ \A c \in ItemRows(classifications, i) :
               /\ attempt = c.attempt_count + 1
               /\ (attempt >= max_attempts) <=> (c.attempt_count + 1 >= max_attempts)
          /\ \A d \in ItemRows(classifications', i) :
               /\ d.attempt_count = attempt
               /\ d.status = "failed" => attempt < max_attempts
               /\ (failed' = failed + 1 /\ attempt >= max_attempts) =>
                    d.status = "permanent_failed"

C39_Bounds ==
  \A c \in classifications :
    /\ c.status = "failed" => (1 <= c.attempt_count /\ c.attempt_count < max_attempts)
    /\ c.attempt_count <= max_attempts

\* C39 -- agreement of the two ceiling checks: the attempt number the
\* controller computes from the attempt_count read at selection always
\* equals the row's stored attempt_count + 1 when the result is written, so
\* the controller's test (attempt >= max_attempts) and the SQL CASE in
\* _mark_failed (attempt_count + 1 >= max_attempts) never disagree;
\* consequently every row with status failed has 1 <= attempt_count <
\* max_attempts and every row has attempt_count <= max_attempts.
C39_CeilingChecksAgree == [][C39_WriteAgrees]_vars /\ []C39_Bounds

\* In one batch a retried item has used its last attempt and failed for
\* good, beside a row that has failed once.
C39_Witness ==
  /\ cl_pc = "pool"
  /\ \E i \in DOMAIN items : items[i].attempt_count = 1 /\ futures[i] = "processed"
  /\ \E c \in classifications :
       c.status = "permanent_failed" /\ c.attempt_count = max_attempts
  /\ \E c \in classifications : c.status = "failed" /\ c.attempt_count = 1

\* ===================================================== an unchanging feed
\* An empty store and a feed that no longer changes, with any distribution
\* of updated_at values over the hours 1..NumObs, ties included.
InitFixedFeed ==
  /\ feed \in [ObsIds -> 1..NumObs]
  /\ clock = NumObs + 1
  /\ settings \in IngestSettings
  /\ IngestAtRest
  /\ OwnPhotos
  /\ StampsLeftOut
  /\ SupervisorAtRest
  /\ photos = {}
  /\ observations = {}
  /\ classifications = {}
  /\ max_attempts = 1
  /\ ClassifyAtRest
  /\ PolicyAtRest
  /\ ParseAtRest
  /\ ClientAtRest

\* Ingest runs are repeated for ever, each one runs to its end and succeeds.
SpecFixedFeed ==
  /\ InitFixedFeed
  /\ [][NextRerun]_vars
  /\ WF_vars(IngestStart)
  /\ WF_vars(IngestFetch)
  /\ WF_vars(IngestStore)
  /\ WF_vars(IngestFinish)
  /\ WF_vars(IngestExit)

\* ----------------------------------------------------------------- C40
\* updated_since of the first run: no cursor is stored yet.
FirstUpdatedSince ==
  clock - timedelta(settings.backfill_days, 0) - timedelta(0, settings.overlap_hours)

\* Every observation of the feed in the first run's window is stored.
WindowUpserted ==
  \A o \in DOMAIN feed :
    feed[o] >= FirstUpdatedSince =>
      \E r \in observations : r.observation_id = o

MaxUpdatedAt == CHOOSE h \in Range(feed) : \A o \in DOMAIN feed : feed[o] <= h

CursorAtMax == _parse_iso(get_state(sync_state)) = Some(MaxUpdatedAt)

\* C40 -- progress under a page bound: with max_pages_per_run > 0 and a
\* finite, unchanging remote feed, repeated successful ingest runs
\* eventually upsert every observation of the feed with updated_at >= the
\* first run's updated_since, and the cursor eventually equals the maximum
\* updated_at in the feed, for every per_page, overlap_hours and
\* distribution of updated_at values.
C40_ProgressUnderPageBound ==
  (settings.max_pages_per_run > 0) => (<>WindowUpserted /\ <>CursorAtMax)

====
